---- MODULE Spec2Model ----
(***************************************************************************)
(* Authentication and session lifecycle of inkboard: AuthService           *)
(* (signup, login, refresh, verify_email, _revoke_token), OtpService       *)
(* (store_and_send_otp, verify_otp) and the token codec of core/security;  *)
(* and the services that consume the identity of a request: reports,       *)
(* follows and comment reactions.                                          *)
(*                                                                         *)
(* Time is a clock of ticks; one second is SubSecond ticks, so that the    *)
(* truncation int(expire.timestamp()) of the codec is not the identity.    *)
(***************************************************************************)
EXTENDS Integers, Sequences, FiniteSets, TLC

VARIABLES
    users,      \* the "user" table: set of User rows
    tokens,     \* the "token" table (refresh-token ledger): set of Token rows
    otps,       \* the "otpcode" table: set of OtpCode rows
    now,        \* the wall clock, in ticks
    last,       \* the request handled last and its response
    redeemed,   \* history: the jtis a refresh call has succeeded with
    exhausted,  \* history: the ids of the OTP rows consumed by an incorrect code
    procs,      \* concurrent requests: position, locals and tallies of each
    articles,   \* the "article" table: set of Article rows
    reports,    \* the "report" table: set of Report rows
    follows,    \* the "follow" table: set of Follow rows
    comments,   \* the "comment" table: set of Comment rows
    reactions   \* the "commentreaction" table: set of CommentReaction rows

vars == <<users, tokens, otps, now, last, redeemed, exhausted, procs,
          articles, reports, follows, comments, reactions>>

(* the tables of the services that consume the identity of a request *)
content == <<articles, reports, follows, comments, reactions>>

(* the tables and histories of the authentication services *)
auth == <<users, tokens, otps, redeemed, exhausted, procs>>

---------------------------------------------------------------------------
(* Bounds of the model *)

\* Token rows ever created
MaxTokens == 2
\* OtpCode rows ever created
MaxOtps == 2
\* last tick of the clock
MaxTime == 2
\* ticks per second
SubSecond == 2
\* settings.ACCESS_TOKEN_EXPIRE_MINUTES, in model seconds
AccessTtl == 1
\* settings.REFRESH_TOKEN_EXPIRE_DAYS, in model seconds
RefreshTtl == 1
\* timedelta(minutes=10) of store_and_send_otp, in model seconds
OtpTtl == 1
\* verify_otp calls one concurrent client makes
MaxCalls == 2

(* Program constants *)
\* "if otp_record.attempts >= 3"
OTP_MAX_ATTEMPTS == 3

(* Input domains *)
Emails == {"a@x.io", "A@x.io", "b@x.io"}
Usernames == {"alice", "bob"}
Passwords == {"pw1", "pw2"}
Codes == {"111111", "222222"}
Purposes == {"email_verification", "password_reset"}
Procs == {1, 2}

SECRET_KEY == "secret"
OTHER_KEY == "other"

None == [type |-> "none"]
NoTime == -1

(* str.lower() on the e-mail strings of the model *)
Lower(e) == IF e = "A@x.io" THEN "a@x.io" ELSE e

---------------------------------------------------------------------------
(* core/security.py *)

(* hash_password: a bcrypt hash is not the plaintext *)
hash_password(password) == [scheme |-> "bcrypt", of |-> password]

verify_password(plain_password, hashed_password) ==
    hashed_password.scheme = "bcrypt" /\ hashed_password.of = plain_password

(* int(dt.timestamp()): whole seconds, truncated *)
Timestamp(t) == t \div SubSecond

(* uuid.uuid4() as the n-th identifier drawn; str(x): the text of a UUID, the
   identity on a str *)
UUID(n) == [uuid |-> n]
Str(x) == IF "uuid" \in DOMAIN x THEN [str |-> x.uuid] ELSE x

Encode(payload, key) == [payload |-> payload, key |-> key]

create_access_token(user_id, email, username, role) ==
    Encode([sub |-> Str(user_id), email |-> email, username |-> username,
            role |-> role, type |-> "access",
            exp |-> Timestamp(now + AccessTtl * SubSecond),
            iat |-> Timestamp(now)], SECRET_KEY)

(* <<token, jti, expire>> for a fresh jti *)
create_refresh_token(user_id, email, username, role, jti) ==
    LET expire == now + RefreshTtl * SubSecond
    IN  <<Encode([sub |-> Str(user_id), email |-> email, username |-> username,
                  role |-> role, type |-> "refresh", jti |-> jti,
                  exp |-> Timestamp(expire),
                  iat |-> Timestamp(now)], SECRET_KEY),
          jti, expire>>

(* a string that is no JWT *)
Garbage == Encode(None, "none")

(* the exceptions of jwt.decode, subclasses of jwt.PyJWTError all *)
PyJWTError == {"DecodeError", "InvalidSignatureError", "ExpiredSignatureError"}

(* an exception that leaves the function *)
Raised(e) == [raised |-> e]

(* jwt.decode(token, settings.SECRET_KEY, algorithms=[settings.ALGORITHM]):
   DecodeError on a malformed token, InvalidSignatureError on a signature of
   another key, ExpiredSignatureError when exp <= now (now as a float of
   seconds); raised is "" when the claims are returned *)
jwt_decode(token) ==
    IF token.payload = None THEN [raised |-> "DecodeError", payload |-> None]
    ELSE IF token.key # SECRET_KEY
    THEN [raised |-> "InvalidSignatureError", payload |-> None]
    ELSE IF token.payload.exp * SubSecond <= now
    THEN [raised |-> "ExpiredSignatureError", payload |-> None]
    ELSE [raised |-> "", payload |-> token.payload]

(* a decode that verifies the signature and not the expiry *)
decode_token_any_age(token) ==
    IF token.key # SECRET_KEY THEN None
    ELSE token.payload

(* a decode_token whose except clause names ExpiredSignatureError alone *)
decode_token_catching_expiry(token) ==
    LET r == jwt_decode(token)
    IN  IF r.raised = "" THEN r.payload
        ELSE IF r.raised = "ExpiredSignatureError" THEN None
        ELSE Raised(r.raised)

(* decode_token: the claims jwt.decode returns, None for a PyJWTError; any
   other exception would leave the function *)
decode_token(token) ==
    LET r == jwt_decode(token)
    IN  IF r.raised = "" THEN r.payload
        ELSE IF r.raised \in PyJWTError THEN None
        ELSE Raised(r.raised)

---------------------------------------------------------------------------
(* The response of the handler that ran last *)

NoBody == [none |-> TRUE]

(* call: what the handler met on its way and the response does not show: what
   its verify_otp call returned, whether the mail collaborators would validate
   the address and deliver, whether the presented jti had been redeemed before *)
Resp(op, req, status, detail, body) ==
    [op |-> op, req |-> req, status |-> status, detail |-> detail, body |-> body,
     call |-> NoBody]

WithCall(resp, v) == [resp EXCEPT !.call = [ret |-> v.ret, sel |-> v.sel]]

(* HTTPException(status_code, detail) *)
Raise(op, req, status, detail) == Resp(op, req, status, detail, NoBody)

---------------------------------------------------------------------------
(* services/otp_service.py *)

(* the OtpCode row store_and_send_otp adds; code is what generate_otp drew *)
OtpCode(user_id, code, purpose) ==
    [id |-> Cardinality(otps) + 1, user_id |-> user_id, purpose |-> purpose,
     code |-> code, expires_at |-> now + OtpTtl * SubSecond,
     consumed |-> FALSE, consumed_at |-> NoTime, attempts |-> 0,
     created_at |-> now]

(* a store_and_send_otp that hands the code to the mail sender before it
   stores the row *)
store_and_send_otp_send_first(user_id, email, purpose, code, valid, sent) ==
    IF ~valid THEN [otps |-> otps, ret |-> "false", sends |-> 0]
    ELSE IF ~sent
    THEN [otps |-> otps, ret |-> "raise", sends |-> 1]
    ELSE [otps |-> otps \cup {OtpCode(user_id, code, purpose)},
          ret |-> "true", sends |-> 1]

(* OtpService.store_and_send_otp. valid: what is_valid_email answers (the
   deliverability lookup); sent: whether send_email returns rather than
   raises. ret is "true", "false" or "raise" (HTTPException 500); sends is the
   number of send_email calls; the row is committed before the mail is sent. *)
store_and_send_otp(user_id, email, purpose, code, valid, sent) ==
    IF ~valid THEN [otps |-> otps, ret |-> "false", sends |-> 0]
    ELSE IF ~sent
    THEN [otps |-> otps \cup {OtpCode(user_id, code, purpose)},
          ret |-> "raise", sends |-> 1]
    ELSE [otps |-> otps \cup {OtpCode(user_id, code, purpose)},
          ret |-> "true", sends |-> 1]

(* a select of verify_otp that lacks the consumed == False condition *)
OtpCandidatesAnyConsumed(user_id, purpose) ==
    {r \in otps : /\ r.user_id = user_id
                  /\ r.purpose = purpose
                  /\ r.expires_at > now}

(* a select of verify_otp that lacks the expires_at > now condition *)
OtpCandidatesAnyAge(user_id, purpose) ==
    {r \in otps : /\ r.user_id = user_id
                  /\ r.purpose = purpose
                  /\ ~r.consumed}

(* a select of verify_otp that lacks the user_id condition *)
OtpCandidatesAnyUser(user_id, purpose) ==
    {r \in otps : /\ r.purpose = purpose
                  /\ r.expires_at > now
                  /\ ~r.consumed}

(* the rows the select of verify_otp returns *)
OtpCandidates(user_id, purpose) ==
    {r \in otps : /\ r.user_id = user_id
                  /\ r.purpose = purpose
                  /\ r.expires_at > now
                  /\ ~r.consumed}

(* an attempt that counts only the codes that did not match *)
OtpAttemptCountsMisses(r, input_otp) ==
    IF r.code = input_otp
    THEN [r EXCEPT !.consumed = TRUE, !.consumed_at = now]
    ELSE LET inc == [r EXCEPT !.attempts = @ + 1]
         IN  IF inc.attempts >= OTP_MAX_ATTEMPTS
             THEN [inc EXCEPT !.consumed = TRUE, !.consumed_at = now]
             ELSE inc

(* an attempt that lacks the ceiling: consumed on a match only *)
OtpAttemptNoCeiling(r, input_otp) ==
    LET inc == [r EXCEPT !.attempts = @ + 1]
    IN  IF inc.code = input_otp
        THEN [inc EXCEPT !.consumed = TRUE, !.consumed_at = now]
        ELSE inc

(* the row after the attempt: attempts incremented, consumed on a match or at
   the ceiling *)
OtpAttempt(r, input_otp) ==
    LET inc == [r EXCEPT !.attempts = @ + 1]
    IN  IF inc.code = input_otp
        THEN [inc EXCEPT !.consumed = TRUE, !.consumed_at = now]
        ELSE IF inc.attempts >= OTP_MAX_ATTEMPTS
        THEN [inc EXCEPT !.consumed = TRUE, !.consumed_at = now]
        ELSE inc

(* OtpService.verify_otp. ret is "true", "false" or "raise" (HTTPException
   500: scalar_one_or_none raises MultipleResultsFound, a SQLAlchemyError,
   when the select returns more than one row); sel is the id of the row the
   call selected, 0 when none. *)
verify_otp(user_id, input_otp, purpose) ==
    LET cands == OtpCandidates(user_id, purpose)
    IN  IF cands = {} THEN [otps |-> otps, ret |-> "false", sel |-> 0]
        ELSE IF Cardinality(cands) > 1
        THEN [otps |-> otps, ret |-> "raise", sel |-> 0]
        ELSE LET r == CHOOSE c \in cands : TRUE
             IN  [otps |-> (otps \ {r}) \cup {OtpAttempt(r, input_otp)},
                  ret |-> IF r.code = input_otp THEN "true" ELSE "false",
                  sel |-> r.id]

---------------------------------------------------------------------------
(* services/auth_service.py *)

(* a User row that is born verified *)
UserBornVerified(email, username, password) ==
    [id |-> UUID(Cardinality(users) + 1), email |-> email, username |-> username,
     hashed_password |-> hash_password(password), is_verified |-> TRUE,
     role |-> "user"]

(* the User row signup adds; role and is_verified as the column defaults *)
User(email, username, password) ==
    [id |-> UUID(Cardinality(users) + 1), email |-> email, username |-> username,
     hashed_password |-> hash_password(password), is_verified |-> FALSE,
     role |-> "user"]

(* a users table whose unique index covers the e-mail only *)
IntegrityErrorEmailOnly(user) ==
    \E u \in users : u.email = user.email

(* the INSERT of a user fails on the unique indexes of email and username *)
IntegrityError(user) ==
    \E u \in users : u.email = user.email \/ u.username = user.username

(* AuthService.signup from the deliverability check on, the existence select
   having returned no row. The user is committed before store_and_send_otp
   runs, so the rollback() of the failure branch finds nothing to undo; a
   commit that fails on a unique index is answered as a duplicate. *)
signup_insert(req, code, valid1, valid2, sent) ==
    LET email == Lower(req.email)
        user == User(email, req.username, req.password)
        o == store_and_send_otp(user.id, email, "email_verification", code, valid2, sent)
    IN  IF ~valid1
        THEN [users |-> users, otps |-> otps,
              resp |-> Raise("signup", req, 400,
                             "Invalid email address. Please provide a valid email.")]
        ELSE IF IntegrityError(user)
        THEN [users |-> users, otps |-> otps,
              resp |-> Raise("signup", req, 400, "Email or username already exists.")]
        ELSE IF o.ret = "raise"
        THEN [users |-> users \cup {user}, otps |-> o.otps,
              resp |-> Raise("signup", req, 500, "Failed to process OTP request")]
        ELSE IF o.ret = "false"
        THEN [users |-> users \cup {user}, otps |-> o.otps,
              resp |-> Raise("signup", req, 500,
                             "Failed to send verification email. Please try again.")]
        ELSE [users |-> users \cup {user}, otps |-> o.otps,
              resp |-> Resp("signup", req, 201, "",
                            [message |-> "Signup successful. Please check your email for verification code.",
                             success |-> TRUE])]

(* AuthService.signup. The existence select raises MultipleResultsFound when
   the e-mail is one user's and the username another's. *)
signup(req, code, valid1, valid2, sent) ==
    LET existing == {u \in users : u.email = Lower(req.email) \/ u.username = req.username}
    IN  IF Cardinality(existing) > 1
        THEN [users |-> users, otps |-> otps,
              resp |-> Raise("signup", req, 500, "Internal server error during signup.")]
        ELSE IF existing # {}
        THEN [users |-> users, otps |-> otps,
              resp |-> Raise("signup", req, 400, "Email or username already exists.")]
        ELSE signup_insert(req, code, valid1, valid2, sent)

(* a token pair whose jti is the same at every call *)
_issue_token_pair_same_jti(user) ==
    LET access_token == create_access_token(user.id, user.email, user.username, user.role)
        r == create_refresh_token(user.id, user.email, user.username, user.role, 1)
        db_token == [user_id |-> user.id, token |-> r[1], jti |-> r[2],
                     expires_at |-> r[3], revoked |-> FALSE, revoked_at |-> NoTime]
    IN  [tokens |-> tokens \cup {db_token},
         body |-> [access_token |-> access_token, refresh_token |-> r[1],
                   token_type |-> "bearer"]]

(* a token pair whose ledger row carries the exp claim, in seconds, where the
   expiry instant belongs *)
_issue_token_pair_exp_claim(user) ==
    LET access_token == create_access_token(user.id, user.email, user.username, user.role)
        r == create_refresh_token(user.id, user.email, user.username, user.role,
                                  Cardinality(tokens) + 1)
        db_token == [user_id |-> user.id, token |-> r[1], jti |-> r[2],
                     expires_at |-> r[1].payload.exp, revoked |-> FALSE,
                     revoked_at |-> NoTime]
    IN  [tokens |-> tokens \cup {db_token},
         body |-> [access_token |-> access_token, refresh_token |-> r[1],
                   token_type |-> "bearer"]]

(* AuthService._issue_token_pair: the Token row and the LoginResponse *)
_issue_token_pair(user) ==
    LET access_token == create_access_token(user.id, user.email, user.username, user.role)
        r == create_refresh_token(user.id, user.email, user.username, user.role,
                                  Cardinality(tokens) + 1)
        db_token == [user_id |-> user.id, token |-> r[1], jti |-> r[2],
                     expires_at |-> r[3], revoked |-> FALSE, revoked_at |-> NoTime]
    IN  [tokens |-> tokens \cup {db_token},
         body |-> [access_token |-> access_token, refresh_token |-> r[1],
                   token_type |-> "bearer"]]

(* a login that turns away a user whose e-mail is not verified *)
login_verified_only(req) ==
    LET found == {u \in users : u.email = Lower(req.email)}
    IN  IF found = {} \/ ~verify_password(req.password, (CHOOSE u \in found : TRUE).hashed_password)
        THEN [tokens |-> tokens,
              resp |-> Raise("login", req, 401, "Invalid email or password.")]
        ELSE IF ~(CHOOSE u \in found : TRUE).is_verified
        THEN [tokens |-> tokens,
              resp |-> Raise("login", req, 403, "Email not verified.")]
        ELSE LET t == _issue_token_pair(CHOOSE u \in found : TRUE)
             IN  [tokens |-> t.tokens, resp |-> Resp("login", req, 200, "", t.body)]

(* a login that tells an unknown e-mail from a wrong password *)
login_distinguishing(req) ==
    LET found == {u \in users : u.email = Lower(req.email)}
    IN  IF found = {}
        THEN [tokens |-> tokens,
              resp |-> Raise("login", req, 404, "User not found.")]
        ELSE IF ~verify_password(req.password, (CHOOSE u \in found : TRUE).hashed_password)
        THEN [tokens |-> tokens,
              resp |-> Raise("login", req, 401, "Invalid email or password.")]
        ELSE LET t == _issue_token_pair(CHOOSE u \in found : TRUE)
             IN  [tokens |-> t.tokens, resp |-> Resp("login", req, 200, "", t.body)]

(* AuthService.login *)
login(req) ==
    LET found == {u \in users : u.email = Lower(req.email)}
    IN  IF found = {} \/ ~verify_password(req.password, (CHOOSE u \in found : TRUE).hashed_password)
        THEN [tokens |-> tokens,
              resp |-> Raise("login", req, 401, "Invalid email or password.")]
        ELSE LET t == _issue_token_pair(CHOOSE u \in found : TRUE)
             IN  [tokens |-> t.tokens, resp |-> Resp("login", req, 200, "", t.body)]

(* a liveness check whose select lacks the revoked == False condition *)
_is_refresh_valid_any_flag(jti) ==
    \E t \in tokens : t.jti = jti /\ t.expires_at > now

(* a liveness check that takes a row for live at the instant it expires *)
_is_refresh_valid_at_expiry(jti) ==
    \E t \in tokens : t.jti = jti /\ t.revoked = FALSE /\ t.expires_at >= now

(* AuthService._is_refresh_valid *)
_is_refresh_valid(jti) ==
    \E t \in tokens : t.jti = jti /\ t.revoked = FALSE /\ t.expires_at > now

(* AuthService._revoke_token: the ledger after the UPDATE *)
_revoke_token(jti) ==
    {IF t.jti = jti THEN [t EXCEPT !.revoked = TRUE, !.revoked_at = now] ELSE t :
        t \in tokens}

(* a refresh without "except HTTPException: raise": its own 401s fall into
   "except Exception" and come out as 500 *)
refresh_swallowing(req) ==
    LET payload == decode_token(req.refresh_token)
    IN  IF payload = None \/ payload.type # "refresh"
        THEN [tokens |-> tokens,
              resp |-> Raise("refresh", req, 500, "Failed to refresh token.")]
        ELSE IF ~_is_refresh_valid(payload.jti)
        THEN [tokens |-> tokens,
              resp |-> Raise("refresh", req, 500, "Failed to refresh token.")]
        ELSE [tokens |-> tokens,
              resp |-> Resp("refresh", req, 200, "",
                            [access_token |-> create_access_token(payload.sub, payload.email,
                                                                  payload.username, payload.role),
                             token_type |-> "bearer"])]

(* a refresh that revokes the jti it refuses *)
refresh_revoking_refused(req) ==
    LET payload == decode_token(req.refresh_token)
    IN  IF payload = None \/ payload.type # "refresh"
        THEN [tokens |-> tokens,
              resp |-> Raise("refresh", req, 401, "Invalid refresh token.")]
        ELSE IF ~_is_refresh_valid(payload.jti)
        THEN [tokens |-> _revoke_token(payload.jti),
              resp |-> Raise("refresh", req, 401, "Refresh token expired or revoked.")]
        ELSE [tokens |-> tokens,
              resp |-> Resp("refresh", req, 200, "",
                            [access_token |-> create_access_token(payload.sub, payload.email,
                                                                  payload.username, payload.role),
                             token_type |-> "bearer"])]


(* a refresh that hands back the claims it was given, signed anew *)
refresh_reissuing(req) ==
    LET payload == decode_token(req.refresh_token)
    IN  IF payload = None \/ payload.type # "refresh"
        THEN [tokens |-> tokens,
              resp |-> Raise("refresh", req, 401, "Invalid refresh token.")]
        ELSE IF ~_is_refresh_valid(payload.jti)
        THEN [tokens |-> tokens,
              resp |-> Raise("refresh", req, 401, "Refresh token expired or revoked.")]
        ELSE [tokens |-> tokens,
              resp |-> Resp("refresh", req, 200, "",
                            [access_token |-> Encode(payload, SECRET_KEY),
                             token_type |-> "bearer"])]

(* AuthService.refresh: the ledger after it (it writes nothing) and its
   response *)
refresh(req) ==
    LET payload == decode_token(req.refresh_token)
    IN  IF payload = None \/ payload.type # "refresh"
        THEN [tokens |-> tokens,
              resp |-> Raise("refresh", req, 401, "Invalid refresh token.")]
        ELSE IF ~_is_refresh_valid(payload.jti)
        THEN [tokens |-> tokens,
              resp |-> Raise("refresh", req, 401, "Refresh token expired or revoked.")]
        ELSE [tokens |-> tokens,
              resp |-> Resp("refresh", req, 200, "",
                            [access_token |-> create_access_token(payload.sub, payload.email,
                                                                  payload.username, payload.role),
                             token_type |-> "bearer"])]

(* AuthService.verify_email. The lookup compares the e-mail as given. The
   UPDATE names verified_at, which the User model does not have: compiling it
   raises CompileError, a SQLAlchemyError, after verify_otp has committed. *)
verify_email(email, otp) ==
    LET req == [email |-> email, otp |-> otp]
        found == {u \in users : u.email = email}
        v == verify_otp((CHOOSE u \in found : TRUE).id, otp, "email_verification")
    IN  IF found = {}
        THEN [otps |-> otps,
              resp |-> Raise("verify_email", req, 404, "User not found.")]
        ELSE IF v.ret = "raise"
        THEN [otps |-> v.otps,
              resp |-> WithCall(Raise("verify_email", req, 500, "Failed to verify OTP"), v)]
        ELSE IF v.ret = "false"
        THEN [otps |-> v.otps,
              resp |-> WithCall(Raise("verify_email", req, 400, "Invalid or expired OTP."), v)]
        ELSE [otps |-> v.otps,
              resp |-> WithCall(Raise("verify_email", req, 500, "Failed to verify email."), v)]

---------------------------------------------------------------------------
(* middleware/jwt_middleware.py *)

(* A URL path as the sequence of the pieces it is matched by; the seventh
   entry of the default list is the one string the adjacent literals
   "/favicon.ico" "/redoc" make. *)
exempt_paths ==
    {<<"/api/v1/auth/">>, <<"/api/v1/inkboard/storage/">>, <<"/api/v1/home/trending">>,
     <<"/docs">>, <<"/openapi.json">>, <<"/favicon.ico", "/redoc">>}

(* str.startswith *)
StartsWith(path, prefix) ==
    Len(prefix) <= Len(path) /\ SubSeq(path, 1, Len(prefix)) = prefix

(* the Authorization header: absent, or a scheme word, a space and the rest *)
NoHeader == [absent |-> TRUE]
Header(scheme, rest) == [scheme |-> scheme, rest |-> rest]

(* a dispatch that lets a Bearer header through whatever its token decodes to *)
dispatch_unchecked(path, auth_header) ==
    IF \E ex \in exempt_paths : StartsWith(path, ex)
    THEN [status |-> 200, detail |-> "", handler |-> TRUE, user |-> None]
    ELSE IF auth_header = NoHeader \/ auth_header.scheme # "Bearer"
    THEN [status |-> 401, detail |-> "Missing or invalid Authorization header",
          handler |-> FALSE, user |-> None]
    ELSE [status |-> 200, detail |-> "", handler |-> TRUE,
          user |-> decode_token(auth_header.rest)]

(* JWTAuthMiddleware.dispatch: the response, whether call_next ran, and
   request.state.user as the handler finds it *)
dispatch(path, auth_header) ==
    IF \E ex \in exempt_paths : StartsWith(path, ex)
    THEN [status |-> 200, detail |-> "", handler |-> TRUE, user |-> None]
    ELSE IF auth_header = NoHeader \/ auth_header.scheme # "Bearer"
    THEN [status |-> 401, detail |-> "Missing or invalid Authorization header",
          handler |-> FALSE, user |-> None]
    ELSE LET payload == decode_token(auth_header.rest)
         IN  IF payload = None
             THEN [status |-> 401, detail |-> "Invalid or expired token",
                   handler |-> FALSE, user |-> None]
             ELSE [status |-> 200, detail |-> "", handler |-> TRUE, user |-> payload]

---------------------------------------------------------------------------
Init ==
    /\ users = {}
    /\ tokens = {}
    /\ otps = {}
    /\ now = 0
    /\ last = Resp("none", NoBody, 0, "", NoBody)
    /\ redeemed = {}
    /\ exhausted = {}
    /\ procs = [p \in Procs |-> [pc |-> "idle"]]
    /\ articles = {}
    /\ reports = {}
    /\ follows = {}
    /\ comments = {}
    /\ reactions = {}

(* time passes *)
Tick ==
    /\ now < MaxTime
    /\ now' = now + 1
    /\ UNCHANGED <<content, users, tokens, otps, last, redeemed, exhausted, procs>>

(* what the collaborators of a signup answer: <<is_valid_email in signup,
   is_valid_email in store_and_send_otp, send_email returns>>; an answer that
   is never asked for is taken as TRUE *)
MailOutcomes ==
    {<<FALSE, TRUE, TRUE>>, <<TRUE, FALSE, TRUE>>, <<TRUE, TRUE, FALSE>>, <<TRUE, TRUE, TRUE>>}

(* the signup responses that come before the mail collaborators are asked *)
NotAsked ==
    {"Email or username already exists.", "Internal server error during signup."}

(* POST /auth/signup, for the requests of reqs and the codes generate_otp may draw *)
SignupOf(reqs, codes) ==
    \E req \in reqs, code \in codes, m \in MailOutcomes :
        LET r == signup(req, code, m[1], m[2], m[3])
        IN  /\ Cardinality(r.otps) <= MaxOtps
            /\ users' = r.users
            /\ otps' = r.otps
            /\ last' = IF r.resp.detail \in NotAsked THEN r.resp
                       ELSE [r.resp EXCEPT !.call = [delivered |-> m[1] /\ m[2] /\ m[3]]]
            /\ UNCHANGED <<content, tokens, now, redeemed, exhausted, procs>>

(* POST /auth/login *)
Login ==
    \E req \in [email : Emails, password : Passwords] :
        LET r == login(req)
        IN  /\ Cardinality(r.tokens) <= MaxTokens
            /\ tokens' = r.tokens
            /\ last' = r.resp
            /\ UNCHANGED <<content, users, otps, now, redeemed, exhausted, procs>>

(* what a client can present as a refresh token: a refresh token it was
   given, the same claims signed with another key, the access token of the
   last response, or a string that is no token *)
Presentable ==
    {t.token : t \in tokens}
        \cup {Encode(t.token.payload, OTHER_KEY) : t \in tokens}
        \cup (IF "access_token" \in DOMAIN last.body THEN {last.body.access_token} ELSE {})
        \cup {Garbage}

(* the jti a presented token names, 0 when it names none *)
JtiOf(tok) ==
    IF tok.payload.type = "refresh" THEN tok.payload.jti ELSE 0

(* POST /auth/refresh; replay: a refresh call has succeeded with this jti before *)
Refresh ==
    \E tok \in Presentable :
        LET r == refresh([refresh_token |-> tok])
        IN  /\ tokens' = r.tokens
            /\ last' = [r.resp EXCEPT !.call = [replay |-> JtiOf(tok) \in redeemed]]
            /\ redeemed' = IF r.resp.status = 200 THEN redeemed \cup {JtiOf(tok)}
                            ELSE redeemed
            /\ UNCHANGED <<content, users, otps, now, exhausted, procs>>

(* AuthService._revoke_token(jti) *)
RevokeToken ==
    \E jti \in 1..(MaxTokens + 1) :
        /\ tokens' = _revoke_token(jti)
        /\ last' = Resp("_revoke_token", [jti |-> jti], 0, "", NoBody)
        /\ UNCHANGED <<content, users, otps, now, redeemed, exhausted, procs>>

(* AuthService._is_refresh_valid(jti), for the jtis issued and one that is not *)
IsRefreshValid ==
    \E jti \in 1..(MaxTokens + 1) :
        /\ last' = Resp("_is_refresh_valid", [jti |-> jti], 0, "",
                         [ret |-> _is_refresh_valid(jti)])
        /\ UNCHANGED <<content, users, tokens, otps, now, redeemed, exhausted, procs>>

(* the row a verify_otp call answered false on and left consumed *)
Exhausted(call, rows) ==
    IF "ret" \in DOMAIN call /\ call.ret = "false"
    THEN {r.id : r \in {x \in rows : x.id = call.sel /\ x.consumed}}
    ELSE {}

(* POST /auth/verify-email, for the e-mails of emails *)
VerifyEmailOf(emails) ==
    \E email \in emails, otp \in Codes :
        LET r == verify_email(email, otp)
        IN  /\ otps' = r.otps
            /\ last' = r.resp
            /\ exhausted' = exhausted \cup Exhausted(r.resp.call, r.otps)
            /\ UNCHANGED <<content, users, tokens, now, redeemed, procs>>

(* OtpService.store_and_send_otp(user_id, email, purpose), for the purposes of
   purposes *)
StoreAndSendOtpOf(purposes) ==
    \E u \in users, purpose \in purposes, code \in Codes, m \in MailOutcomes :
        LET r == store_and_send_otp(u.id, u.email, purpose, code, m[2], m[3])
        IN  /\ Cardinality(r.otps) <= MaxOtps
            /\ otps' = r.otps
            /\ last' = [Resp("store_and_send_otp", [user_id |-> u.id, purpose |-> purpose],
                              0, "", [ret |-> r.ret, sends |-> r.sends])
                            EXCEPT !.call = [valid |-> m[2], sent |-> m[3]]]
            /\ UNCHANGED <<content, users, tokens, now, redeemed, exhausted, procs>>

(* OtpService.verify_otp(user_id, input_otp, purpose) *)
VerifyOtp ==
    \E u \in users, input_otp \in Codes, purpose \in Purposes :
        LET r == verify_otp(u.id, input_otp, purpose)
        IN  /\ otps' = r.otps
            /\ last' = WithCall(Resp("verify_otp",
                                      [user_id |-> u.id, input_otp |-> input_otp,
                                       purpose |-> purpose], 0, "", [ret |-> r.ret]), r)
            /\ exhausted' = exhausted \cup Exhausted(r, r.otps)
            /\ UNCHANGED <<content, users, tokens, now, redeemed, procs>>

---------------------------------------------------------------------------
(* Sessions: signup, login and refresh, for every e-mail and username and one
   password and code at signup *)

Signup == SignupOf([email : Emails, username : Usernames, password : {"pw1"}], {"111111"})

Next ==
    \/ Tick
    \/ Signup
    \/ Login
    \/ Refresh

Spec == Init /\ [][Next]_vars

(* One-time codes: the OTP engine and verify-email, for one account; codes are
   stored for e-mail verification and verified for either purpose *)

OtpSignup == SignupOf([email : {"A@x.io"}, username : {"alice"}, password : {"pw1"}], {"111111"})

VerifyEmail == VerifyEmailOf({"a@x.io", "A@x.io", "b@x.io"})

StoreAndSendOtp == StoreAndSendOtpOf({"email_verification"})

OtpNext ==
    \/ Tick
    \/ OtpSignup
    \/ VerifyEmail
    \/ StoreAndSendOtp
    \/ VerifyOtp

OtpSpec == Init /\ [][OtpNext]_vars

(* Request authorization: the middleware in front of the handlers, with the
   tokens one account's logins hand out *)

Paths ==
    {<<"/api/v1/users/", "me">>, <<"/api/v1/auth/", "login">>, <<"/docs">>, <<"/redoc">>}

(* the tokens a client can put in a header: what Presentable holds and the
   token of the header it sent last *)
Bearable ==
    Presentable \cup (IF last.op = "dispatch" /\ last.req.auth_header # NoHeader
                      THEN {last.req.auth_header.rest} ELSE {})

(* one request through JWTAuthMiddleware.dispatch; a handler that runs answers 200 *)
Dispatch ==
    \E path \in Paths,
       auth_header \in {NoHeader} \cup {Header(sch, tok) : sch \in {"Bearer", "Basic"},
                                                          tok \in Bearable} :
        LET r == dispatch(path, auth_header)
        IN  /\ last' = Resp("dispatch", [path |-> path, auth_header |-> auth_header],
                             r.status, r.detail, [handler |-> r.handler, user |-> r.user])
            /\ UNCHANGED <<content, users, tokens, otps, now, redeemed, exhausted, procs>>

GateSignup == SignupOf([email : {"a@x.io"}, username : {"alice"}, password : {"pw1"}], {"111111"})

GateLogin ==
    \E req \in [email : {"a@x.io"}, password : {"pw1"}] :
        LET r == login(req)
        IN  /\ Cardinality(r.tokens) <= MaxTokens
            /\ tokens' = r.tokens
            /\ last' = r.resp
            /\ UNCHANGED <<content, users, otps, now, redeemed, exhausted, procs>>

GateNext ==
    \/ Tick
    \/ GateSignup
    \/ GateLogin
    \/ Dispatch

GateSpec == Init /\ [][GateNext]_vars

(* The token codec on its own: access tokens minted for any identity and
   decoded as time passes *)

Identities ==
    [user_id : {UUID(1), UUID(2)}, email : {"a@x.io", "b@x.io"},
     username : Usernames, role : {"user", "admin"}]

(* create_access_token(user_id, email, username, role); issued: the tick of
   the call *)
CreateAccessToken ==
    \E id \in Identities :
        /\ last' = Resp("create_access_token", [identity |-> id, issued |-> now], 0, "",
                         [access_token |-> create_access_token(id.user_id, id.email,
                                                               id.username, id.role)])
        /\ UNCHANGED <<content, users, tokens, otps, now, redeemed, exhausted, procs>>

(* decode_token(token) of the token minted last, of its claims signed with
   another key, or of a string that is no token *)
DecodeToken ==
    /\ last.op \in {"create_access_token", "decode_token"}
    /\ LET minted == IF last.op = "create_access_token" THEN last.body.access_token
                     ELSE last.req.minted
       IN  \E token \in {minted, Encode(minted.payload, OTHER_KEY), Garbage} :
               last' = Resp("decode_token",
                            [token |-> token, minted |-> minted,
                             identity |-> last.req.identity, issued |-> last.req.issued],
                            0, "", [payload |-> decode_token(token)])
    /\ UNCHANGED <<content, users, tokens, otps, now, redeemed, exhausted, procs>>

CodecNext ==
    \/ Tick
    \/ CreateAccessToken
    \/ DecodeToken

CodecSpec == Init /\ [][CodecNext]_vars

(* The refresh-token ledger: one account's logins, refresh, and revocation of
   any jti, issued or not *)

LedgerSignup == SignupOf([email : {"a@x.io"}, username : {"alice"}, password : {"pw1"}], {"111111"})

LedgerVerifyEmail == VerifyEmailOf({"a@x.io"})

LedgerNext ==
    \/ Tick
    \/ LedgerSignup
    \/ GateLogin
    \/ Refresh
    \/ RevokeToken
    \/ IsRefreshValid
    \/ LedgerVerifyEmail

LedgerSpec == Init /\ [][LedgerNext]_vars

(* Concurrent refresh requests. A request suspends once, at the select of
   _is_refresh_valid; decoding comes before it, the answer after it. *)

(* refresh up to its await: decode_token and the type check *)
RefreshBegin(p) ==
    \E tok \in Presentable :
        LET req == [refresh_token |-> tok]
            payload == decode_token(tok)
            inflight == {q \in Procs : procs[q].pc = "await_valid"}
        IN  /\ procs[p].pc = "idle"
            /\ procs' = [q \in Procs |->
                  IF q = p
                  THEN IF payload = None \/ payload.type # "refresh"
                       THEN [pc |-> "done", req |-> req, with |-> inflight,
                             resp |-> Raise("refresh", req, 401, "Invalid refresh token.")]
                       ELSE [pc |-> "await_valid", req |-> req, with |-> inflight,
                             payload |-> payload]
                  ELSE IF q \in inflight
                       THEN [procs[q] EXCEPT !.with = @ \cup {p}]
                       ELSE procs[q]]
            /\ UNCHANGED <<content, users, tokens, otps, now, last, redeemed, exhausted>>

(* refresh from its await on: the liveness answer, the new access token *)
RefreshFinish(p) ==
    LET payload == procs[p].payload
        req == procs[p].req
        resp == IF ~_is_refresh_valid(payload.jti)
                THEN Raise("refresh", req, 401, "Refresh token expired or revoked.")
                ELSE Resp("refresh", req, 200, "",
                          [access_token |-> create_access_token(payload.sub, payload.email,
                                                                payload.username, payload.role),
                           token_type |-> "bearer"])
    IN  /\ procs[p].pc = "await_valid"
        /\ procs' = [procs EXCEPT ![p] = [pc |-> "done", req |-> req,
                                          with |-> procs[p].with, resp |-> resp]]
        /\ UNCHANGED <<content, users, tokens, otps, now, last, redeemed, exhausted>>

ConcSignup == SignupOf([email : {"a@x.io"}, username : {"alice"}, password : {"pw1"}], {"111111"})

ConcNext ==
    \/ Tick
    \/ ConcSignup
    \/ Login
    \/ \E p \in Procs : RefreshBegin(p)
    \/ \E p \in Procs : RefreshFinish(p)

ConcSpec == Init /\ [][ConcNext]_vars

(* Concurrent verify_otp calls, each on a session of its own
   (expire_on_commit=False, no row lock): a call suspends at its select and at
   each commit. The ORM object is the call's private copy of the row; a flush
   writes the attributes the call changed, as the values it computed. *)

(* what client p has done so far: calls finished, increments committed, codes
   compared, calls that returned true *)
Tally(p, f) == IF f \in DOMAIN procs[p] THEN procs[p][f] ELSE 0

Tallies(p) ==
    [calls |-> Tally(p, "calls"), counted |-> Tally(p, "counted"),
     compared |-> Tally(p, "compared"), trues |-> Tally(p, "trues")]

(* UPDATE otpcode SET ... WHERE id = :id *)
OtpUpdate(id, attempts, consumed) ==
    {IF o.id # id THEN o
     ELSE IF consumed THEN [o EXCEPT !.consumed = TRUE, !.consumed_at = now]
     ELSE [o EXCEPT !.attempts = attempts] : o \in otps}

(* verify_otp up to its select: no row returns False at once, and several
   rows raise (scalar_one_or_none) *)
VerifyOtpSelect(p) ==
    \E u \in users, input_otp \in Codes :
        LET cands == OtpCandidates(u.id, "email_verification")
            t == Tallies(p)
        IN  /\ procs[p].pc = "idle"
            /\ t.calls < MaxCalls
            /\ procs' = [procs EXCEPT ![p] =
                  IF Cardinality(cands) # 1
                  THEN [pc |-> "idle", calls |-> t.calls + 1, counted |-> t.counted,
                        compared |-> t.compared, trues |-> t.trues]
                  ELSE [pc |-> "selected", calls |-> t.calls, counted |-> t.counted,
                        compared |-> t.compared, trues |-> t.trues,
                        input_otp |-> input_otp,
                        otp_record |-> CHOOSE c \in cands : TRUE]]
            /\ UNCHANGED <<content, users, tokens, otps, now, last, redeemed, exhausted>>

(* otp_record.attempts += 1; commit *)
VerifyOtpCount(p) ==
    /\ procs[p].pc = "selected"
    /\ LET r == procs[p].otp_record
       IN  /\ otps' = OtpUpdate(r.id, r.attempts + 1, FALSE)
           /\ procs' = [procs EXCEPT ![p].pc = "counted",
                                     ![p].counted = @ + 1,
                                     ![p].otp_record.attempts = @ + 1]
    /\ UNCHANGED <<content, users, tokens, now, last, redeemed, exhausted>>

(* the comparison, the consume on a match or at the ceiling, the return *)
VerifyOtpCompare(p) ==
    /\ procs[p].pc = "counted"
    /\ LET r == procs[p].otp_record
           t == Tallies(p)
           match == r.code = procs[p].input_otp
       IN  /\ otps' = IF match \/ r.attempts >= OTP_MAX_ATTEMPTS
                      THEN OtpUpdate(r.id, r.attempts, TRUE)
                      ELSE otps
           /\ procs' = [procs EXCEPT ![p] =
                 [pc |-> "idle", calls |-> t.calls + 1, counted |-> t.counted,
                  compared |-> t.compared + 1,
                  trues |-> IF match THEN t.trues + 1 ELSE t.trues]]
    /\ UNCHANGED <<content, users, tokens, now, last, redeemed, exhausted>>

OtpConcSignup == SignupOf([email : {"a@x.io"}, username : {"alice"}, password : {"pw1"}], {"111111"})

OtpConcNext ==
    \/ Tick
    \/ OtpConcSignup
    \/ \E p \in Procs : VerifyOtpSelect(p)
    \/ \E p \in Procs : VerifyOtpCount(p)
    \/ \E p \in Procs : VerifyOtpCompare(p)

OtpConcSpec == Init /\ [][OtpConcNext]_vars

(* The password routes of api/routes/auth_router.py, for one account; codes
   are stored for password reset by the OTP engine *)

(* the methods class AuthService defines *)
AuthServiceMethods ==
    {"refresh_token", "_revoke_token", "signup", "login", "refresh",
     "verify_email", "_issue_token_pair", "_is_refresh_valid"}

(* auth_service.<method>: the attribute lookup raises AttributeError for a
   name the class lacks, before any statement of the service runs; the
   handler catches nothing, and the server answers 500 *)
Getattr(op, req, method) ==
    IF method \in AuthServiceMethods
    THEN Resp(op, req, 200, "", NoBody)
    ELSE Raise(op, req, 500, "Internal Server Error")

(* POST /auth/password/forgot: await auth_service.resend_verification_email(req.email) *)
send_verification_email(req) ==
    Getattr("send_verification_email", req, "resend_verification_email")

(* POST /auth/password/verify-otp: await auth_service.verify_otp(req.email, req.otp) *)
verify_forgot_password_otp(req) ==
    Getattr("verify_forgot_password_otp", req, "verify_otp")

(* POST /auth/password/reset: await auth_service.reset_password(req.otp, req.new_password) *)
reset_password(req) ==
    Getattr("reset_password", req, "reset_password")

ForgotPassword ==
    \E req \in [email : {"a@x.io", "b@x.io"}] :
        /\ last' = send_verification_email(req)
        /\ UNCHANGED <<content, users, tokens, otps, now, redeemed, exhausted, procs>>

VerifyForgotPasswordOtp ==
    \E req \in [email : {"a@x.io"}, otp : Codes] :
        /\ last' = verify_forgot_password_otp(req)
        /\ UNCHANGED <<content, users, tokens, otps, now, redeemed, exhausted, procs>>

ResetPassword ==
    \E req \in [otp : Codes, new_password : Passwords] :
        /\ last' = reset_password(req)
        /\ UNCHANGED <<content, users, tokens, otps, now, redeemed, exhausted, procs>>

ResetStoreAndSendOtp == StoreAndSendOtpOf({"password_reset"})

ResetNext ==
    \/ Tick
    \/ GateSignup
    \/ GateLogin
    \/ ResetStoreAndSendOtp
    \/ ForgotPassword
    \/ VerifyForgotPasswordOtp
    \/ ResetPassword

ResetSpec == Init /\ [][ResetNext]_vars

(* Seeded and signed-up accounts: scripts/seed.py stores users that are
   verified from the start; signup stores users that are not *)

(* the number of users ensure_users is asked for *)
SeedCount == 1

PASSWORD_PLAIN == "Password123!"

make_username(n) == IF n = 1 THEN "user01" ELSE "user02"

make_email(n) == IF n = 1 THEN "user01@example.com" ELSE "user02@example.com"

(* ensure_users of scripts/seed.py and the commit of main: a username that
   exists is skipped; an e-mail another user holds fails the flush on the
   unique index, and the script ends with nothing stored *)
ensure_users(count) ==
    LET fresh == {n \in 1..count : \A u \in users : u.username # make_username(n)}
        added == {[id |-> UUID(Cardinality(users) + n), email |-> make_email(n),
                   username |-> make_username(n),
                   hashed_password |-> hash_password(PASSWORD_PLAIN),
                   is_verified |-> TRUE,
                   role |-> IF n % 3 = 0 THEN "author" ELSE "user"] : n \in fresh}
    IN  IF \E a \in added, u \in users : a.email = u.email THEN users
        ELSE users \cup added

Seed ==
    /\ users' = ensure_users(SeedCount)
    /\ last' = Resp("seed", NoBody, 0, "", NoBody)
    /\ UNCHANGED <<content, tokens, otps, now, redeemed, exhausted, procs>>

SeedSignup ==
    SignupOf([email : {"a@x.io", make_email(1)}, username : {"alice"}, password : {"pw1"}],
             {"111111"})

SeedLogin ==
    \E req \in [email : {"a@x.io", make_email(1)}, password : {"pw1", PASSWORD_PLAIN}] :
        LET r == login(req)
        IN  /\ Cardinality(r.tokens) <= MaxTokens
            /\ tokens' = r.tokens
            /\ last' = r.resp
            /\ UNCHANGED <<content, users, otps, now, redeemed, exhausted, procs>>

SeedVerifyEmail == VerifyEmailOf({"a@x.io", make_email(1)})

SeedNext ==
    \/ Tick
    \/ Seed
    \/ SeedSignup
    \/ SeedLogin
    \/ SeedVerifyEmail

SeedSpec == Init /\ [][SeedNext]_vars

(* Concurrent signups, each on a session of its own: a call suspends between
   its existence select and its commit *)

(* signup up to its existence select: a row found answers at once *)
SignupCheck(p) ==
    \E req \in [email : {"a@x.io", "A@x.io", "b@x.io"}, username : Usernames,
                password : {"pw1"}] :
        LET r == signup(req, "111111", TRUE, TRUE, TRUE)
            found == \E u \in users : u.email = Lower(req.email) \/ u.username = req.username
        IN  /\ procs[p].pc = "idle"
            /\ Tally(p, "calls") < MaxCalls
            /\ procs' = [procs EXCEPT ![p] =
                  IF found
                  THEN [pc |-> "idle", calls |-> Tally(p, "calls") + 1,
                        lost |-> Tally(p, "lost")]
                  ELSE [pc |-> "checked", calls |-> Tally(p, "calls"),
                        lost |-> Tally(p, "lost"), req |-> req]]
            /\ last' = IF found THEN r.resp ELSE last
            /\ UNCHANGED <<content, users, tokens, otps, now, redeemed, exhausted>>

(* the rest of signup: the deliverability check, the commit of the user, the
   code; lost counts the commits the unique indexes refused *)
SignupInsert(p) ==
    /\ procs[p].pc = "checked"
    /\ \E m \in MailOutcomes :
        LET req == procs[p].req
            r == signup_insert(req, "111111", m[1], m[2], m[3])
            refused == m[1] /\ IntegrityError(User(Lower(req.email), req.username, req.password))
        IN  /\ Cardinality(r.otps) <= MaxOtps
            /\ users' = r.users
            /\ otps' = r.otps
            /\ last' = r.resp
            /\ procs' = [procs EXCEPT ![p] =
                  [pc |-> "idle", calls |-> Tally(p, "calls") + 1,
                   lost |-> IF refused THEN Tally(p, "lost") + 1 ELSE Tally(p, "lost")]]
    /\ UNCHANGED <<content, tokens, now, redeemed, exhausted>>

SignupConcNext ==
    \/ Tick
    \/ \E p \in Procs : SignupCheck(p)
    \/ \E p \in Procs : SignupInsert(p)

SignupConcSpec == Init /\ [][SignupConcNext]_vars

(* Codes of two accounts: signup stores a code for each, and verify_otp is
   called for either user, either purpose and any code *)

BindSignup ==
    SignupOf({[email |-> "a@x.io", username |-> "alice", password |-> "pw1"],
              [email |-> "b@x.io", username |-> "bob", password |-> "pw1"]}, {"111111"})

BindNext ==
    \/ Tick
    \/ BindSignup
    \/ VerifyOtp

BindSpec == Init /\ [][BindNext]_vars

---------------------------------------------------------------------------
(* api/deps/auth.py and the services behind it. An id in a path or a body is
   text: [str |-> n] is the text str() gives for the n-th UUID, and a text
   may spell the same UUID in upper case or be no UUID at all. *)

(* the rows a table may hold at most *)
MaxArticles == 1

MaxComments == 1

Roles == {"user", "author", "editor", "admin"}

Upper(s) == [str |-> s.str, form |-> "upper"]

NoUUID == [str |-> 0, form |-> "bad"]

(* uuid.UUID(s): the UUID the hex digits spell, in either letter case; None
   stands for the ValueError raised on a text that spells none *)
ParseUUID(s) ==
    IF s = NoUUID THEN None ELSE UUID(s.str)

(* request.state.user as the handler of path finds it, None when the
   attribute is not set; refused: the middleware answered without calling
   the handler *)
RequestState(path, auth_header) ==
    LET r == dispatch(path, auth_header)
    IN  [refused |-> ~r.handler, status |-> r.status, detail |-> r.detail,
         user |-> r.user]

(* get_current_user_id: the sub claim, or HTTPException 401 *)
get_current_user_id(state_user) ==
    IF state_user = None
    THEN [status |-> 401, detail |-> "Not authenticated", ret |-> None]
    ELSE [status |-> 200, detail |-> "", ret |-> state_user.sub]

(* a dependency that asks for an identity and not for a role *)
require_role_editor_or_admin_any_role(state_user) ==
    IF state_user = None
    THEN [status |-> 401, detail |-> "Not authenticated", ret |-> None]
    ELSE [status |-> 200, detail |-> "", ret |-> state_user.sub]

(* require_role_editor_or_admin: the sub claim, or HTTPException 401 or 403 *)
require_role_editor_or_admin(state_user) ==
    IF state_user = None
    THEN [status |-> 401, detail |-> "Not authenticated", ret |-> None]
    ELSE IF state_user.role \notin {"editor", "admin"}
    THEN [status |-> 403, detail |-> "Insufficient permissions", ret |-> None]
    ELSE [status |-> 200, detail |-> "", ret |-> state_user.sub]

(* the headers a client sends: none, a string that is no token, an access
   token minted now for the first user with any role *)
Headers ==
    {NoHeader, Header("Bearer", Garbage)}
        \cup {Header("Bearer", create_access_token(UUID(1), "a@x.io", "alice", role)) :
                role \in Roles}

(* a route: the middleware, the dependency dep, then handler(user_id); the
   result is [resp, articles, reports] *)
Refusal(op, req, status, detail) ==
    [resp |-> Raise(op, req, status, detail), articles |-> articles, reports |-> reports]

---------------------------------------------------------------------------
(* services/article_service.py, services/report_service.py *)

(* ArticleService.create_article behind POST /articles: the row holds the
   author and the status; an author that is no user fails the flush on the
   foreign key, which the route answers as a duplicate slug *)
create_article(author_id, request) ==
    LET op == "create_article"
        article == [id |-> UUID(Cardinality(articles) + 1),
                    author_id |-> ParseUUID(author_id), status |-> request.status]
    IN  IF \A u \in users : u.id # article.author_id
        THEN Refusal(op, request, 400, "Article slug already exists")
        ELSE [resp |-> Resp(op, request, 201, "", [id |-> Str(article.id),
                                                   status |-> article.status]),
              articles |-> articles \cup {article}, reports |-> reports]

(* the fields class Settings declares *)
SettingsFields ==
    {"DATABASE_URL", "SECRET_KEY", "ACCESS_TOKEN_EXPIRE_MINUTES",
     "REFRESH_TOKEN_EXPIRE_DAYS", "ALGORITHM", "APP_NAME", "APP_VERSION",
     "MINIO_ENDPOINT", "MINIO_ACCESS_KEY", "MINIO_SECRET_KEY", "MINIO_BUCKET_NAME",
     "MINIO_SECURE"}

ReportItem(r) ==
    [id |-> Str(r.id), article_id |-> Str(r.article_id),
     reporter_id |-> Str(r.reporter_id), reason |-> r.reason, status |-> r.status]

(* ReportService.create_report: after the article and the duplicate are
   looked up, the throttle reads settings.REPORT_THROTTLE_PER_MIN, which
   Settings does not declare: AttributeError, answered 500, before any row is
   added *)
create_report(reporter_id, req) ==
    LET op == "create_report"
        existing == {r \in reports : /\ r.article_id = ParseUUID(req.article_id)
                                     /\ r.reporter_id = ParseUUID(reporter_id)}
        report == [id |-> UUID(Cardinality(reports) + 1),
                   article_id |-> ParseUUID(req.article_id),
                   reporter_id |-> ParseUUID(reporter_id),
                   reason |-> req.reason, status |-> "pending"]
    IN  IF \A a \in articles : a.id # ParseUUID(req.article_id)
        THEN Refusal(op, req, 404, "Article not found")
        ELSE IF existing # {}
        THEN [resp |-> Resp(op, req, 201, "", ReportItem(CHOOSE r \in existing : TRUE)),
              articles |-> articles, reports |-> reports]
        ELSE IF "REPORT_THROTTLE_PER_MIN" \notin SettingsFields
        THEN Refusal(op, req, 500, "Internal Server Error")
        ELSE [resp |-> Resp(op, req, 201, "", ReportItem(report)),
              articles |-> articles, reports |-> reports \cup {report}]

(* ReportService.list_reports *)
list_reports(req) ==
    [resp |-> Resp("list_reports", req, 200, "",
                   [reports |-> {ReportItem(r) : r \in reports},
                    total |-> Cardinality(reports)]),
     articles |-> articles, reports |-> reports]

(* ReportService.moderate *)
moderate(admin_id, report_id, req) ==
    LET op == "moderate_report"
        found == {r \in reports : r.id = ParseUUID(report_id)}
        report == CHOOSE r \in found : TRUE
        new_status == IF req.action \in {"approve", "restore"} THEN "approved"
                      ELSE "rejected"
        article_status == IF req.action = "approve" THEN "archived" ELSE "draft"
    IN  IF found = {}
        THEN Refusal(op, [report_id |-> report_id, action |-> req.action], 404,
                     "Report not found")
        ELSE [resp |-> Resp(op, [report_id |-> report_id, action |-> req.action], 200, "",
                            [id |-> Str(report.id), status |-> new_status]),
              articles |-> IF req.action = "reject" THEN articles
                           ELSE {IF a.id = report.article_id
                                 THEN [a EXCEPT !.status = article_status] ELSE a :
                                    a \in articles},
              reports |-> {IF r.id = report.id THEN [r EXCEPT !.status = new_status]
                           ELSE r : r \in reports}]

---------------------------------------------------------------------------
(* Reports: one account, its articles, and the report routes called with any
   header *)

(* POST /api/v1/articles *)
CreateArticle ==
    \E auth_header \in Headers, st \in {"draft", "published"} :
        LET req == [auth_header |-> auth_header, status |-> st]
            state == RequestState(<<"/api/v1/articles">>, auth_header)
            dep == get_current_user_id(state.user)
            r == IF state.refused
                 THEN Refusal("create_article", req, state.status, state.detail)
                 ELSE IF dep.status # 200
                 THEN Refusal("create_article", req, dep.status, dep.detail)
                 ELSE create_article(dep.ret, req)
        IN  /\ Cardinality(r.articles) <= MaxArticles
            /\ articles' = r.articles
            /\ last' = r.resp
            /\ UNCHANGED <<auth, now, reports, follows, comments, reactions>>

(* POST /api/v1/reports *)
CreateReport ==
    \E auth_header \in Headers, n \in 1..(MaxArticles + 1) :
        LET req == [auth_header |-> auth_header, article_id |-> Str(UUID(n)),
                    reason |-> "spam"]
            state == RequestState(<<"/api/v1/reports">>, auth_header)
            dep == get_current_user_id(state.user)
            r == IF state.refused
                 THEN Refusal("create_report", req, state.status, state.detail)
                 ELSE IF dep.status # 200
                 THEN Refusal("create_report", req, dep.status, dep.detail)
                 ELSE create_report(dep.ret, req)
        IN  /\ reports' = r.reports
            /\ last' = r.resp
            /\ UNCHANGED <<auth, now, articles, follows, comments, reactions>>

(* GET /api/v1/reports *)
ListReports ==
    \E auth_header \in Headers :
        LET req == [auth_header |-> auth_header]
            state == RequestState(<<"/api/v1/reports">>, auth_header)
            dep == require_role_editor_or_admin(state.user)
            r == IF state.refused
                 THEN Refusal("list_reports", req, state.status, state.detail)
                 ELSE IF dep.status # 200
                 THEN Refusal("list_reports", req, dep.status, dep.detail)
                 ELSE list_reports(req)
        IN  /\ last' = r.resp
            /\ UNCHANGED <<auth, now, content>>

(* POST /api/v1/reports/{report_id}/moderate *)
ModerateReport ==
    \E auth_header \in Headers, n \in 1..2, action \in {"approve", "reject", "restore"} :
        LET req == [auth_header |-> auth_header, report_id |-> Str(UUID(n)),
                    action |-> action]
            state == RequestState(<<"/api/v1/reports/", req.report_id, "/moderate">>,
                                  auth_header)
            dep == require_role_editor_or_admin(state.user)
            r == IF state.refused
                 THEN Refusal("moderate_report", req, state.status, state.detail)
                 ELSE IF dep.status # 200
                 THEN Refusal("moderate_report", req, dep.status, dep.detail)
                 ELSE LET m == moderate(dep.ret, req.report_id, req)
                      IN  [m EXCEPT !.resp.req = req]
        IN  /\ articles' = r.articles
            /\ reports' = r.reports
            /\ last' = r.resp
            /\ UNCHANGED <<auth, now, follows, comments, reactions>>

ReportNext ==
    \/ GateSignup
    \/ CreateArticle
    \/ CreateReport
    \/ ListReports
    \/ ModerateReport

ReportSpec == Init /\ [][ReportNext]_vars

---------------------------------------------------------------------------
(* services/follow_service.py *)

(* the ids the path of a follow route is called with: the canonical text of
   the ids of the two accounts, the hex digits of the first in upper case,
   and a text that spells no UUID *)
FollowingIds ==
    {Str(UUID(n)) : n \in 1..2} \cup {Upper(Str(UUID(1))), NoUUID}

(* the Follow rows of one (follower, following) pair of UUIDs *)
FollowsOf(follower, following) ==
    {f \in follows : f.follower_id = follower /\ f.following_id = following}

(* the primary key of a new Follow row *)
FreshFollowId ==
    CHOOSE n \in 1..(Cardinality(follows) + 1) : \A f \in follows : f.id # n

(* FollowService.follow_user; the self-follow test compares the two texts,
   every later step the UUIDs they spell.  An unparsable id, a second row of
   one pair selected, or a follower that is no user (foreign key at commit)
   ends in an unhandled exception, answered 500. *)
follow_user(follower_id, following_id) ==
    LET op == "follow_user"
        req == [follower_id |-> follower_id, following_id |-> following_id]
        follower == ParseUUID(follower_id)
        following == ParseUUID(following_id)
        keep(status, detail) == [resp |-> Raise(op, req, status, detail), follows |-> follows]
    IN  IF follower_id = following_id
        THEN keep(400, "You cannot follow yourself")
        ELSE IF following = None
        THEN keep(500, "Internal Server Error")
        ELSE IF \A u \in users : u.id # following
        THEN keep(404, "User not found")
        ELSE IF Cardinality(FollowsOf(follower, following)) > 1
        THEN keep(500, "Internal Server Error")
        ELSE IF FollowsOf(follower, following) # {}
        THEN keep(400, "You are already following this user")
        ELSE IF \A u \in users : u.id # follower
        THEN keep(500, "Internal Server Error")
        ELSE [resp |-> Resp(op, req, 200, "",
                            [follower_id |-> follower_id, following_id |-> following_id,
                             message |-> "Successfully followed user", following |-> TRUE]),
              follows |-> follows \cup {[id |-> FreshFollowId, follower_id |-> follower,
                                         following_id |-> following]}]

(* FollowService.unfollow_user *)
unfollow_user(follower_id, following_id) ==
    LET op == "unfollow_user"
        req == [follower_id |-> follower_id, following_id |-> following_id]
        follower == ParseUUID(follower_id)
        following == ParseUUID(following_id)
        keep(status, detail) == [resp |-> Raise(op, req, status, detail), follows |-> follows]
    IN  IF following = None \/ Cardinality(FollowsOf(follower, following)) > 1
        THEN keep(500, "Internal Server Error")
        ELSE IF FollowsOf(follower, following) = {}
        THEN keep(404, "You are not following this user")
        ELSE [resp |-> Resp(op, req, 200, "",
                            [follower_id |-> follower_id, following_id |-> following_id,
                             message |-> "Successfully unfollowed user", following |-> FALSE]),
              follows |-> follows \ FollowsOf(follower, following)]

(* FollowService.get_follow_status *)
get_follow_status(follower_id, following_id) ==
    LET op == "get_follow_status"
        req == [follower_id |-> follower_id, following_id |-> following_id]
        follower == ParseUUID(follower_id)
        following == ParseUUID(following_id)
    IN  IF following = None \/ Cardinality(FollowsOf(follower, following)) > 1
        THEN Raise(op, req, 500, "Internal Server Error")
        ELSE Resp(op, req, 200, "",
                  [is_following |-> FollowsOf(follower, following) # {},
                   follower_id |-> follower_id, following_id |-> following_id])

(* the Authorization headers of the two accounts *)
FollowHeaders ==
    {NoHeader} \cup {Header("Bearer", create_access_token(UUID(n), "a@x.io", "alice", "user")) :
                        n \in 1..2}

(* POST /api/v1/follows/{following_id} *)
FollowUser ==
    \E auth_header \in FollowHeaders, following_id \in FollowingIds :
        LET state == RequestState(<<"/api/v1/follows/", following_id>>, auth_header)
            dep == get_current_user_id(state.user)
            req == [follower_id |-> dep.ret, following_id |-> following_id]
            r == IF state.refused
                 THEN [resp |-> Raise("follow_user", req, state.status, state.detail),
                       follows |-> follows]
                 ELSE follow_user(dep.ret, following_id)
        IN  /\ follows' = r.follows
            /\ last' = r.resp
            /\ UNCHANGED <<auth, now, articles, reports, comments, reactions>>

(* DELETE /api/v1/follows/{following_id} *)
UnfollowUser ==
    \E auth_header \in FollowHeaders, following_id \in FollowingIds :
        LET state == RequestState(<<"/api/v1/follows/", following_id>>, auth_header)
            dep == get_current_user_id(state.user)
            req == [follower_id |-> dep.ret, following_id |-> following_id]
            r == IF state.refused
                 THEN [resp |-> Raise("unfollow_user", req, state.status, state.detail),
                       follows |-> follows]
                 ELSE unfollow_user(dep.ret, following_id)
        IN  /\ follows' = r.follows
            /\ last' = r.resp
            /\ UNCHANGED <<auth, now, articles, reports, comments, reactions>>

(* GET /api/v1/follows/status/{following_id} *)
GetFollowStatus ==
    \E auth_header \in FollowHeaders, following_id \in FollowingIds :
        LET state == RequestState(<<"/api/v1/follows/status/", following_id>>, auth_header)
            dep == get_current_user_id(state.user)
            req == [follower_id |-> dep.ret, following_id |-> following_id]
        IN  /\ last' = IF state.refused
                       THEN Raise("get_follow_status", req, state.status, state.detail)
                       ELSE get_follow_status(dep.ret, following_id)
            /\ UNCHANGED <<auth, now, content>>

FollowNext ==
    \/ BindSignup
    \/ FollowUser
    \/ UnfollowUser
    \/ GetFollowStatus

FollowSpec == Init /\ [][FollowNext]_vars

---------------------------------------------------------------------------
(* services/comment_service.py; the rows a handler flushes are what the next
   request of the session reads *)

(* CommentService.create_comment for a top-level comment: the article must
   exist, and the flush fails on the foreign key when the author is no user *)
create_comment(user_id, req) ==
    LET op == "create_comment"
        comment == [id |-> UUID(Cardinality(comments) + 1),
                    article_id |-> ParseUUID(req.article_id),
                    user_id |-> ParseUUID(user_id)]
        keep(status, detail) == [resp |-> Raise(op, req, status, detail), comments |-> comments]
    IN  IF comment.article_id = None
        THEN keep(500, "Internal Server Error")
        ELSE IF \A a \in articles : a.id # comment.article_id
        THEN keep(404, "Article not found")
        ELSE IF \A u \in users : u.id # comment.user_id
        THEN keep(500, "Internal Server Error")
        ELSE [resp |-> Resp(op, req, 201, "",
                            [id |-> Str(comment.id), article_id |-> Str(comment.article_id),
                             like_count |-> 0, dislike_count |-> 0]),
              comments |-> comments \cup {comment}]

(* the CommentReaction rows of one (comment, user) pair *)
ReactionsOf(table, comment, user) ==
    {r \in table : r.comment_id = comment /\ r.user_id = user}

(* CommentService._counts_for_comment: <<like_count, dislike_count>> *)
_counts_for_comment(table, comment) ==
    <<Cardinality({r \in table : r.comment_id = comment /\ r.value = 1}),
      Cardinality({r \in table : r.comment_id = comment /\ r.value = -1})>>

(* a test that removes the stored reaction only on value 0 *)
RemovesOnZeroOnly(reaction, value) ==
    value = 0

(* whether react removes the stored reaction *)
Removes(reaction, value) ==
    value = 0 \/ reaction.value = value

(* the primary key of a new CommentReaction row *)
FreshReactionId ==
    CHOOSE n \in 1..(Cardinality(reactions) + 1) : \A r \in reactions : r.id # n

(* CommentService.react; an unparsable id, two rows of one pair selected, or
   a new row whose comment or user does not exist (foreign key at the flush)
   ends in an unhandled exception, answered 500 *)
react(user_id, comment_id, req) ==
    LET op == "react"
        request == [user_id |-> user_id, comment_id |-> comment_id, value |-> req.value]
        comment == ParseUUID(comment_id)
        user == ParseUUID(user_id)
        found == ReactionsOf(reactions, comment, user)
        reaction == CHOOSE r \in found : TRUE
        keep(status, detail) ==
            [resp |-> Raise(op, request, status, detail), reactions |-> reactions]
        done(table) ==
            [resp |-> Resp(op, request, 200, "",
                           [comment_id |-> comment_id, user_id |-> user_id,
                            value |-> req.value,
                            like_count |-> _counts_for_comment(table, comment)[1],
                            dislike_count |-> _counts_for_comment(table, comment)[2]]),
             reactions |-> table]
    IN  IF comment = None \/ Cardinality(found) > 1
        THEN keep(500, "Internal Server Error")
        ELSE IF req.value \notin {-1, 0, 1}
        THEN keep(400, "Invalid reaction value")
        ELSE IF found # {}
        THEN IF Removes(reaction, req.value)
             THEN done(reactions \ {reaction})
             ELSE done((reactions \ {reaction}) \cup {[reaction EXCEPT !.value = req.value]})
        ELSE IF req.value = 0
        THEN done(reactions)
        ELSE IF (\A c \in comments : c.id # comment) \/ (\A u \in users : u.id # user)
        THEN keep(500, "Internal Server Error")
        ELSE done(reactions \cup {[id |-> FreshReactionId, comment_id |-> comment,
                                   user_id |-> user, value |-> req.value]})

(* the comment ids the react route is called with: the id of the first
   comment, which is the id of no comment until it is written, and its hex
   digits in upper case *)
CommentIds ==
    {Str(UUID(1)), Upper(Str(UUID(1)))}

(* POST /api/v1/comments *)
CreateComment ==
    \E auth_header \in FollowHeaders, n \in 1..(MaxArticles + 1) :
        LET state == RequestState(<<"/api/v1/comments">>, auth_header)
            dep == get_current_user_id(state.user)
            req == [article_id |-> Str(UUID(n)), content |-> "x"]
            r == IF state.refused
                 THEN [resp |-> Raise("create_comment", req, state.status, state.detail),
                       comments |-> comments]
                 ELSE create_comment(dep.ret, req)
        IN  /\ Cardinality(r.comments) <= MaxComments
            /\ comments' = r.comments
            /\ last' = r.resp
            /\ UNCHANGED <<auth, now, articles, reports, follows, reactions>>

(* POST /api/v1/comments/{comment_id}/react *)
ReactComment ==
    \E auth_header \in FollowHeaders, comment_id \in CommentIds, value \in {-1, 0, 1} :
        LET state == RequestState(<<"/api/v1/comments/", comment_id, "/react">>, auth_header)
            dep == get_current_user_id(state.user)
            req == [user_id |-> dep.ret, comment_id |-> comment_id, value |-> value]
            r == IF state.refused
                 THEN [resp |-> Raise("react", req, state.status, state.detail),
                       reactions |-> reactions]
                 ELSE react(dep.ret, comment_id, [value |-> value])
        IN  /\ reactions' = r.reactions
            /\ last' = r.resp
            /\ UNCHANGED <<auth, now, articles, reports, follows, comments>>

ReactNext ==
    \/ BindSignup
    \/ CreateArticle
    \/ CreateComment
    \/ ReactComment

ReactSpec == Init /\ [][ReactNext]_vars

---------------------------------------------------------------------------
(* Properties *)

(* the users that hold the e-mail (compared in lower case) or the username of
   a signup request *)
Holders(req) ==
    {u \in users : u.email = Lower(req.email) \/ u.username = req.username}

(* a login request that names an existing user and that user's password *)
ValidCredentials(req) ==
    \E u \in users : /\ u.email = Lower(req.email)
                      /\ verify_password(req.password, u.hashed_password)

(* C1: refresh is single-use: a refresh call that presents a jti an earlier
   refresh call has succeeded with fails with 401, never succeeds. *)
C1_RefreshSingleUse ==
    (last.op = "refresh" /\ last.call.replay) => last.status = 401

(* C2: of two refresh requests that present the same jti and overlap in time,
   at most one succeeds. *)
C2_ConcurrentRefreshAtMostOne ==
    \A p, q \in Procs :
        (/\ p # q
         /\ procs[p].pc = "done" /\ procs[q].pc = "done"
         /\ q \in procs[p].with
         /\ procs[p].req = procs[q].req)
        => ~(procs[p].resp.status = 200 /\ procs[q].resp.status = 200)

(* C3: a successful refresh of jti J leaves J's ledger record revoked with
   revoked_at set, adds exactly one live record with a fresh jti for the same
   user, and answers with a new access token and the new refresh token. *)
C3_RefreshRotates ==
    [][(last'.op = "refresh" /\ last' # last /\ last'.status = 200) =>
        LET J == JtiOf(last'.req.refresh_token)
            added == tokens' \ tokens
        IN  /\ \E t \in tokens' : t.jti = J /\ t.revoked /\ t.revoked_at # NoTime
            /\ \E n \in added :
                  /\ added = {n}
                  /\ n.jti # J
                  /\ Str(n.user_id) = last'.req.refresh_token.payload.sub
                  /\ ~n.revoked /\ n.expires_at > now'
                  /\ "refresh_token" \in DOMAIN last'.body
                  /\ last'.body.refresh_token = n.token
            /\ "access_token" \in DOMAIN last'.body]_vars

(* a step in which verify_otp returned true on the strength of row r *)
ReturnsTrueOn(r) ==
    /\ otps' # otps
    /\ last'.op \in {"verify_otp", "verify_email"}
    /\ last'.call.ret = "true"
    /\ last'.call.sel = r.id

(* C4: OTP verification is single-use: no verify call returns true on the
   strength of a row that is already consumed, whether it was consumed by a
   match or by exhausting the attempts. *)
C4_OtpSingleUse ==
    [][\A r \in otps : r.consumed => ~ReturnsTrueOn(r)]_vars

(* a consumed, unexpired row whose correct code was just resubmitted, and the
   call returned false without selecting any row *)
C4_Witness ==
    /\ last.op = "verify_otp"
    /\ last.call.ret = "false" /\ last.call.sel = 0
    /\ \E r \in otps : /\ r.consumed
                         /\ r.user_id = last.req.user_id
                         /\ r.purpose = last.req.purpose
                         /\ r.code = last.req.input_otp
                         /\ r.expires_at > now

(* a step in which a verify call selected row r and the code did not match *)
MismatchOn(r) ==
    /\ otps' # otps
    /\ last'.op \in {"verify_otp", "verify_email"}
    /\ last'.call.ret = "false"
    /\ last'.call.sel = r.id

(* C5: the attempts ceiling: the third incorrect code in a row against an
   outstanding row (attempts = 2 and unconsumed: two incorrect codes so far)
   leaves it consumed with attempts = 3, and no later verify call returns
   true on a row consumed that way, or so much as selects it, the correct
   code included. *)
C5_OtpAttemptsCeiling ==
    /\ [](\A r \in otps : r.id \in exhausted
                              => r.consumed /\ r.attempts = OTP_MAX_ATTEMPTS)
    /\ [][\A r \in otps :
            /\ (r.attempts = OTP_MAX_ATTEMPTS - 1 /\ ~r.consumed /\ MismatchOn(r))
                 => r.id \in exhausted'
            /\ (r.id \in exhausted /\ otps' # otps
                    /\ last'.op \in {"verify_otp", "verify_email"})
                 => last'.call.sel # r.id]_vars

(* the row was consumed by three incorrect codes, and the correct code,
   submitted before expiry, has just been answered false *)
C5_Witness ==
    /\ last.op = "verify_otp"
    /\ last.call.ret = "false" /\ last.call.sel = 0
    /\ \E r \in otps : /\ r.id \in exhausted
                         /\ r.user_id = last.req.user_id
                         /\ r.purpose = last.req.purpose
                         /\ r.code = last.req.input_otp
                         /\ r.expires_at > now

DeliveryFailures ==
    {"Failed to send verification email. Please try again.",
     "Failed to process OTP request"}

(* C6: when the store-and-send step of signup fails, no user with the
   request's e-mail or username is left behind. *)
C6_NoUserAfterFailedDelivery ==
    (last.op = "signup" /\ last.status = 500 /\ last.detail \in DeliveryFailures)
        => Holders(last.req) = {}

(* C7: a signup whose e-mail and username nobody holds, with a deliverable
   e-mail, succeeds, adds exactly one user (unverified) and exactly one
   email_verification OTP row of that user, and issues no token. *)
C7_SignupCreatesUnverifiedUser ==
    [][(/\ last'.op = "signup" /\ last' # last
        /\ Holders(last'.req) = {}
        /\ last'.call.delivered) =>
        /\ last'.status = 201 /\ last'.body.success
        /\ DOMAIN last'.body = {"message", "success"}
        /\ tokens' = tokens
        /\ \E u \in users' :
              /\ u \notin users /\ users' = users \cup {u}
              /\ u.email = Lower(last'.req.email)
              /\ u.username = last'.req.username
              /\ u.is_verified = FALSE
              /\ \E o \in otps' :
                    /\ o \notin otps /\ otps' = otps \cup {o}
                    /\ o.user_id = u.id
                    /\ o.purpose = "email_verification"]_vars

(* a second account has just signed up while a refresh token is on the ledger *)
C7_Witness ==
    /\ last.op = "signup" /\ last.status = 201
    /\ Cardinality(users) = 2
    /\ tokens # {}
    /\ \E u \in users : /\ u.email = Lower(last.req.email)
                          /\ ~u.is_verified
                          /\ \E o \in otps : o.user_id = u.id

(* C8: a signup whose e-mail (in any letter case) or username an existing
   user holds fails with 400 "already exists" and changes no store. *)
C8_DuplicateSignupRejected ==
    [][(last'.op = "signup" /\ last' # last /\ Holders(last'.req) # {}) =>
        /\ last'.status = 400
        /\ last'.detail = "Email or username already exists."
        /\ UNCHANGED <<content, users, otps, tokens>>]_vars

(* C9: a login with an existing user's password answers with an access
   token, a refresh token and token_type "bearer", and adds exactly one
   ledger row: the user's, with the jti of the returned refresh token,
   unrevoked, and expiring when the token does (the expiry
   create_refresh_token returns; the token's exp claim is that instant in
   whole seconds). *)
C9_LoginIssuesPair ==
    [][(last'.op = "login" /\ last' # last /\ ValidCredentials(last'.req)) =>
        LET b == last'.body
        IN  /\ last'.status = 200
            /\ DOMAIN b = {"access_token", "refresh_token", "token_type"}
            /\ b.token_type = "bearer"
            /\ b.access_token.payload.type = "access"
            /\ b.refresh_token.payload.type = "refresh"
            /\ \E t \in tokens' :
                  /\ t \notin tokens /\ tokens' = tokens \cup {t}
                  /\ \E u \in users : u.email = Lower(last'.req.email) /\ t.user_id = u.id
                  /\ t.jti = b.refresh_token.payload.jti
                  /\ t.revoked = FALSE
                  /\ t.expires_at = now + RefreshTtl * SubSecond
                  /\ b.refresh_token.payload.exp = Timestamp(t.expires_at)]_vars

(* the second login: a row is added to a ledger that already holds one *)
C9_Witness ==
    /\ last.op = "login" /\ last.status = 200
    /\ Cardinality(tokens) = 2
    /\ \E t \in tokens : t.token = last.body.refresh_token /\ t.expires_at % SubSecond # 0

(* the one response of a failed login *)
InvalidCredentials ==
    [status |-> 401, detail |-> "Invalid email or password.", body |-> NoBody]

(* C10: a login for an e-mail nobody holds and a login with a wrong password
   get the same response, and neither changes a store. *)
C10_LoginFailureUniform ==
    [][(last'.op = "login" /\ last' # last /\ ~ValidCredentials(last'.req)) =>
        /\ [status |-> last'.status, detail |-> last'.detail, body |-> last'.body]
               = InvalidCredentials
        /\ UNCHANGED <<content, users, tokens, otps>>]_vars

(* a wrong password for an existing user has just been refused, with a
   session of that user on the ledger *)
C10_Witness ==
    /\ last.op = "login" /\ last.status = 401
    /\ \E u \in users : /\ u.email = Lower(last.req.email)
                          /\ ~verify_password(last.req.password, u.hashed_password)
                          /\ \E t \in tokens : t.user_id = u.id


(* a token that carries a valid signature and has not expired *)
SignedAndUnexpired(tok) ==
    tok.key = SECRET_KEY /\ tok.payload.exp * SubSecond > now

(* a request to a path no entry of exempt_paths is a prefix of *)
NonExempt(req) ==
    \A ex \in exempt_paths : ~StartsWith(req.path, ex)

(* C11: on a non-exempt path the handler runs only if the Authorization
   header is a Bearer header whose token is validly signed and unexpired;
   with no header, another scheme, or an invalid or expired token the answer
   is 401 and the handler does not run. *)
C11_MiddlewareGuardsHandlers ==
    [][(last'.op = "dispatch" /\ last' # last /\ NonExempt(last'.req)) =>
        LET h == last'.req.auth_header
            ok == /\ h # NoHeader
                  /\ h.scheme = "Bearer"
                  /\ SignedAndUnexpired(h.rest)
        IN  /\ last'.body.handler => ok
            /\ ~ok => (last'.status = 401 /\ ~last'.body.handler)]_vars

(* a request to /api/v1/users/me whose Bearer token was issued by a login and
   has expired since was just refused *)
C11_Witness ==
    /\ last.op = "dispatch" /\ last.status = 401 /\ ~last.body.handler
    /\ last.req.path = <<"/api/v1/users/", "me">>
    /\ last.req.auth_header # NoHeader
    /\ last.req.auth_header.scheme = "Bearer"
    /\ last.req.auth_header.rest.key = SECRET_KEY
    /\ last.req.auth_header.rest.payload.type = "access"

(* a step of verify-email that found the user and called verify_otp *)
VerifyEmailCalled ==
    /\ last'.op = "verify_email"
    /\ (last' # last \/ otps' # otps)
    /\ "ret" \in DOMAIN last'.call

(* C12: verify-email for an existing user: when verify_otp returns true the
   call succeeds, the user's is_verified becomes true and verified_at is
   stamped; when it returns false the call fails with 400 "Invalid or expired
   OTP." and is_verified is left as it was. *)
C12_VerifyEmailSetsVerified ==
    [][VerifyEmailCalled =>
        /\ last'.call.ret = "true" =>
              /\ last'.status = 200
              /\ \E u \in users' : /\ u.email = last'.req.email
                                    /\ u.is_verified
                                    /\ "verified_at" \in DOMAIN u
        /\ last'.call.ret = "false" =>
              /\ last'.status = 400
              /\ last'.detail = "Invalid or expired OTP."
              /\ users' = users]_vars

(* the verify-email call handled last was one whose code verify_otp accepted *)
CodeAccepted ==
    /\ last.op = "verify_email"
    /\ "ret" \in DOMAIN last.call
    /\ last.call.ret = "true"

(* C13: verify-email is idempotent: the call whose code was accepted, made
   again with the same e-mail and the same code, returns without error and
   the user is verified. *)
C13_VerifyEmailIdempotent ==
    [][(/\ CodeAccepted
        /\ last'.op = "verify_email"
        /\ last'.req = last.req
        /\ last' # last) =>
        /\ last'.status = 200
        /\ \E u \in users' : u.email = last'.req.email /\ u.is_verified]_vars

(* the rows of a set that no other row of it was created after *)
MostRecent(rows) ==
    {r \in rows : \A x \in rows : x.created_at <= r.created_at}

(* C14: with several unexpired, unconsumed rows for one user and purpose,
   verify_otp selects the most recently created one, compares against it
   only (no other row changes), and returns a boolean, not an error. *)
C14_VerifySelectsMostRecent ==
    [][(/\ last'.op = "verify_otp"
        /\ last' # last
        /\ Cardinality(OtpCandidates(last'.req.user_id, last'.req.purpose)) > 1) =>
        LET cands == OtpCandidates(last'.req.user_id, last'.req.purpose)
        IN  /\ last'.call.ret \in {"true", "false"}
            /\ \E r \in MostRecent(cands) :
                  /\ last'.call.sel = r.id
                  /\ last'.call.ret = (IF r.code = last'.req.input_otp THEN "true" ELSE "false")
                  /\ \A x \in otps \ {r} : x \in otps']_vars

(* C15: token round trip: decoding a token create_access_token produced,
   before its expiry (the exp claim: the issue instant plus the access
   lifetime, in whole seconds), yields the sub, email, username and role it
   was created for and type "access"; decoding it at or after its expiry
   yields None. *)
C15_AccessTokenRoundTrip ==
    [][(/\ last'.op = "decode_token" /\ last' # last
        /\ last'.req.token = last'.req.minted) =>
        LET id == last'.req.identity
            exp == Timestamp(last'.req.issued + AccessTtl * SubSecond)
            payload == last'.body.payload
        IN  IF now < exp * SubSecond
            THEN /\ payload # None
                 /\ payload.sub = Str(id.user_id)
                 /\ payload.email = id.email
                 /\ payload.username = id.username
                 /\ payload.role = id.role
                 /\ payload.type = "access"
            ELSE payload = None]_vars

(* an admin's token, minted between two whole seconds, has just been decoded
   after its expiry *)
C15_Witness ==
    /\ last.op = "decode_token"
    /\ last.req.token = last.req.minted
    /\ last.req.issued % SubSecond # 0
    /\ last.body.payload = None
    /\ last.req.identity.role = "admin"

(* a presented token that must be refused: it does not decode (malformed, bad
   signature, expired), its type is not "refresh", or no ledger row with its
   jti is unrevoked and unexpired *)
MustBeRefused(tok) ==
    \/ ~SignedAndUnexpired(tok)
    \/ tok.payload.type # "refresh"
    \/ ~\E t \in tokens : t.jti = tok.payload.jti /\ ~t.revoked /\ t.expires_at > now

(* C16: every refresh that must fail ends with 401, never with a success or
   an internal error; a refresh ends with 200 or 401 and nothing else. *)
C16_RefreshFailureUniform ==
    [][(last'.op = "refresh" /\ last' # last) =>
        /\ last'.status \in {200, 401}
        /\ MustBeRefused(last'.req.refresh_token) => last'.status = 401]_vars

(* a refresh token whose ledger row is revoked was refused while the token
   itself still decodes *)
C16_Witness ==
    /\ last.op = "refresh" /\ last.status = 401
    /\ SignedAndUnexpired(last.req.refresh_token)
    /\ last.req.refresh_token.payload.type = "refresh"
    /\ \E t \in tokens : t.jti = last.req.refresh_token.payload.jti /\ t.revoked

(* C17: a refresh that fails a verification step changes no store: no ledger
   row is added, and no row's revoked or revoked_at changes. *)
C17_FailedRefreshChangesNothing ==
    [][(last'.op = "refresh" /\ last'.status # 200 /\ (last' # last \/ tokens' # tokens)) =>
        /\ tokens' = tokens
        /\ users' = users
        /\ otps' = otps]_vars

(* a refresh was refused at the liveness check for a jti revoked at an
   earlier tick, and the row's revoked_at is still that tick *)
C17_Witness ==
    /\ last.op = "refresh" /\ last.status = 401
    /\ last.detail = "Refresh token expired or revoked."
    /\ \E t \in tokens : /\ t.jti = JtiOf(last.req.refresh_token)
                           /\ t.revoked /\ t.revoked_at < now

(* the ledger rows that make a jti live: its own, unrevoked, expiring strictly
   after now *)
LiveRows(jti) ==
    {t \in tokens : t.jti = jti /\ ~t.revoked /\ now < t.expires_at}

(* C18: the liveness check answers true for a jti if and only if a ledger row
   with that jti exists, is unrevoked and expires strictly after now; and a
   refresh succeeds only with a jti for which it does. *)
C18_LivenessCheck ==
    [][/\ (last'.op = "_is_refresh_valid" /\ last' # last) =>
              (last'.body.ret <=> LiveRows(last'.req.jti) # {})
       /\ (last'.op = "refresh" /\ last' # last /\ last'.status = 200) =>
              LiveRows(JtiOf(last'.req.refresh_token)) # {}]_vars

(* the check has just answered false for an unrevoked row at the very tick it
   expires *)
C18_Witness ==
    /\ last.op = "_is_refresh_valid" /\ ~last.body.ret
    /\ \E t \in tokens : t.jti = last.req.jti /\ ~t.revoked /\ t.expires_at = now

(* a step of _revoke_token *)
Revoked ==
    /\ last'.op = "_revoke_token"
    /\ (last' # last \/ tokens' # tokens)

(* C19: revocation is idempotent: revoking an unrevoked jti sets revoked and
   revoked_at; revoking a revoked jti leaves its row as it was, revoked_at
   included; revoking a jti that has no row leaves the ledger as it was. *)
C19_RevokeIdempotent ==
    [][Revoked =>
        LET jti == last'.req.jti
        IN  /\ \A t \in tokens : (t.jti = jti /\ ~t.revoked) =>
                  [t EXCEPT !.revoked = TRUE, !.revoked_at = now] \in tokens'
            /\ \A t \in tokens : (t.jti = jti /\ t.revoked) => t \in tokens'
            /\ (~\E t \in tokens : t.jti = jti) => tokens' = tokens
            /\ Cardinality(tokens') = Cardinality(tokens)]_vars

(* C20: revocation is monotonic: a ledger row that is revoked stays revoked
   through every login, refresh, revocation, signup and verification, and
   neither the liveness check nor refresh accepts its jti again. *)
C20_RevocationMonotonic ==
    [][\A t \in tokens : t.revoked =>
        /\ \E x \in tokens' : x.jti = t.jti
        /\ \A x \in tokens' : x.jti = t.jti => x.revoked
        /\ (last'.op = "_is_refresh_valid" /\ last' # last /\ last'.req.jti = t.jti)
              => ~last'.body.ret
        /\ (last'.op = "refresh" /\ last' # last /\ JtiOf(last'.req.refresh_token) = t.jti)
              => last'.status # 200]_vars

(* the liveness check has just refused a revoked jti that has not expired,
   after a later login added a second row *)
C20_Witness ==
    /\ last.op = "_is_refresh_valid" /\ ~last.body.ret
    /\ Cardinality(tokens) = 2
    /\ \E t \in tokens : /\ t.jti = last.req.jti
                           /\ t.revoked /\ t.expires_at > now
                           /\ \E x \in tokens : ~x.revoked /\ x.jti > t.jti

(* a step of store_and_send_otp *)
StoredAndSent ==
    /\ last'.op = "store_and_send_otp"
    /\ (last' # last \/ otps' # otps)

(* C21: store_and_send_otp returns false, stores no row and does not call
   the mail sender when the e-mail fails validation; otherwise it stores
   exactly one new row (the given user and purpose, unconsumed, attempts 0,
   expiring the validity window after now), calls the mail sender once with
   the row already stored, and returns true only if the sender returned. *)
C21_StoreAndSend ==
    [][StoredAndSent =>
        IF ~last'.call.valid
        THEN /\ last'.body.ret = "false"
             /\ last'.body.sends = 0
             /\ otps' = otps
        ELSE /\ last'.body.sends = 1
             /\ (last'.body.ret = "true") <=> last'.call.sent
             /\ last'.body.ret # "false"
             /\ \E o \in otps' :
                   /\ o \notin otps /\ otps' = otps \cup {o}
                   /\ o.user_id = last'.req.user_id
                   /\ o.purpose = last'.req.purpose
                   /\ ~o.consumed /\ o.attempts = 0
                   /\ o.expires_at = now + OtpTtl * SubSecond]_vars

(* the mail sender raised on a resend: the call did not return true and the
   second row of the user is stored *)
C21_Witness ==
    /\ last.op = "store_and_send_otp"
    /\ last.call.valid /\ ~last.call.sent
    /\ last.body.ret = "raise"
    /\ Cardinality({o \in otps : o.user_id = last.req.user_id}) = 2

(* a step in which a verify call selected row r *)
SelectedOn(r) ==
    /\ last'.op \in {"verify_otp", "verify_email"}
    /\ otps' # otps
    /\ "sel" \in DOMAIN last'.call
    /\ last'.call.sel = r.id

(* C22: every verify call that selects a row adds exactly one to its
   attempts, whether the code matches or not, and nothing else changes
   attempts; rows start at 0, so attempts counts the calls that selected the
   row, and it never exceeds 3. *)
C22_AttemptsCountSelections ==
    /\ [](\A r \in otps : r.attempts <= OTP_MAX_ATTEMPTS)
    /\ [][/\ \A r \in otps : \E x \in otps' :
                /\ x.id = r.id
                /\ x.attempts = (IF SelectedOn(r) THEN r.attempts + 1 ELSE r.attempts)
          /\ \A x \in otps' : (~\E r \in otps : r.id = x.id) => x.attempts = 0]_vars

(* a row met two incorrect codes and then the correct one: it is consumed by
   the match with attempts = 3 *)
C22_Witness ==
    /\ last.op \in {"verify_otp", "verify_email"}
    /\ "ret" \in DOMAIN last.call
    /\ last.call.ret = "true"
    /\ \E r \in otps : /\ r.id = last.call.sel
                         /\ r.attempts = OTP_MAX_ATTEMPTS
                         /\ r.consumed /\ r.id \notin exhausted

(* the sum of a tally over the clients *)
RECURSIVE TallySum(_, _)
TallySum(ps, f) ==
    IF ps = {} THEN 0
    ELSE LET p == CHOOSE q \in ps : TRUE
         IN  Tally(p, f) + TallySum(ps \ {p}, f)

(* C23: under concurrent verify calls against one row no attempts increment
   is lost (the row's attempts is the number of increments committed), at
   most 3 codes are ever compared against the row, and at most one call
   returns true for it. *)
C23_ConcurrentVerifyExact ==
    \A r \in otps :
        /\ r.attempts = TallySum(Procs, "counted")
        /\ TallySum(Procs, "compared") <= OTP_MAX_ATTEMPTS
        /\ TallySum(Procs, "trues") <= 1

(* the password_reset rows a reset may redeem: unconsumed and unexpired *)
ResetCodes ==
    {r \in otps : r.purpose = "password_reset" /\ ~r.consumed /\ r.expires_at > now}

(* C24: a password reset with a valid password_reset code stores the hash of
   the new password for the code's user and leaves no ledger row of that user
   live. *)
C24_ResetReplacesHashAndRevokes ==
    [][(last'.op = "reset_password" /\ last' # last) =>
          \A r \in ResetCodes : r.code = last'.req.otp =>
              /\ \A u \in users' : u.id = r.user_id =>
                     u.hashed_password = hash_password(last'.req.new_password)
              /\ \A t \in tokens' : t.user_id = r.user_id =>
                     (t.revoked \/ t.expires_at <= now)]_vars

(* the new password_reset rows of a step, for the user who holds the e-mail *)
NewResetRows(email) ==
    {r \in otps' \ otps : /\ r.purpose = "password_reset"
                          /\ \E u \in users : u.email = Lower(email) /\ u.id = r.user_id}

(* C25: a forgot-password request for an existing user's e-mail creates one
   password_reset row for that user and answers with success. *)
C25_ForgotPasswordStoresCode ==
    [][(/\ last'.op = "send_verification_email" /\ last' # last
        /\ \E u \in users : u.email = Lower(last'.req.email)) =>
          /\ last'.status = 200
          /\ Cardinality(NewResetRows(last'.req.email)) = 1]_vars

(* the users whose e-mail and password a login request gives *)
Matching(req) ==
    {u \in users : /\ u.email = Lower(req.email)
                   /\ verify_password(req.password, u.hashed_password)}

(* C26: login does not look at the verified flag: a login with the e-mail and
   password of a user answers 200 with a token pair and stores the ledger row
   of the refresh token, whether the user is verified or not. *)
C26_LoginIgnoresVerified ==
    [][(last'.op = "login" /\ last' # last /\ Matching(last'.req) # {}) =>
          /\ last'.status = 200
          /\ last'.body.token_type = "bearer"
          /\ last'.body.access_token.payload.type = "access"
          /\ \E u \in Matching(last'.req), t \in tokens' \ tokens :
                 /\ t.user_id = u.id
                 /\ t.token = last'.body.refresh_token]_vars

(* a user who is not verified and a user who is have both logged in, the one
   straight after signup *)
C26_Witness ==
    /\ last.op = "login" /\ last.status = 200
    /\ \E u \in users, t \in tokens : ~u.is_verified /\ t.user_id = u.id
    /\ \E u \in users, t \in tokens : u.is_verified /\ t.user_id = u.id
    /\ otps # {} /\ \A o \in otps : ~o.consumed /\ o.attempts = 0

(* a signup whose existence select found nothing, and whose e-mail passes the
   deliverability check, commits after another signup has stored its e-mail
   or its username *)
LosesRace(p) ==
    /\ procs[p].pc = "checked" /\ procs'[p].pc = "idle"
    /\ Holders(procs[p].req) # {}
    /\ last'.detail # "Invalid email address. Please provide a valid email."

(* C27: no two users share an e-mail and no two share a username, whatever
   the interleaving of signups; a signup that loses the race between its
   existence check and its insert is answered 400 as a duplicate and stores
   no user. *)
C27_IdentitiesUnique ==
    /\ [](\A u, v \in users : u # v => (u.email # v.email /\ u.username # v.username))
    /\ [][\A p \in Procs : LosesRace(p) =>
              /\ last'.op = "signup" /\ last'.req = procs[p].req
              /\ last'.status = 400
              /\ last'.detail = "Email or username already exists."
              /\ users' = users /\ otps' = otps]_vars

(* a signup has lost the race on its e-mail, written in another case, and
   has been answered as a duplicate; one user is stored *)
C27_Witness ==
    /\ \E p \in Procs : Tally(p, "lost") > 0
    /\ last.op = "signup" /\ last.status = 400
    /\ last.detail = "Email or username already exists."
    /\ last.req.email = "A@x.io"
    /\ Cardinality(users) = 1

(* no code stored for the user to verify the e-mail with is the code c *)
WrongCodeFor(u, c) ==
    \A r \in otps : (r.user_id = u.id /\ r.purpose = "email_verification") => r.code # c

(* C28: verify-email answers a call for an e-mail no user holds as it answers
   a call for a user's e-mail with a wrong code: same status, same detail. *)
C28_VerifyEmailNoEnumeration ==
    [][(/\ last'.op = "verify_email" /\ last' # last
        /\ \A u \in users : u.email # Lower(last'.req.email)) =>
          \A u \in users, c \in Codes : WrongCodeFor(u, c) =>
              LET w == verify_email(u.email, c).resp
              IN  last'.status = w.status /\ last'.detail = w.detail]_vars

(* C29: decode_token never raises: whatever the string, malformed, signed
   with another key, expired or valid, it returns None or the claims of a
   token that is signed with the key and has not expired. *)
C29_DecodeNeverRaises ==
    [][(last'.op = "decode_token" /\ last' # last) =>
          LET out == last'.body.payload
              token == last'.req.token
          IN  \/ out = None
              \/ /\ out = token.payload
                 /\ token.key = SECRET_KEY
                 /\ now < token.payload.exp * SubSecond]_vars

(* a string that is no token has just been decoded to None, after the token
   minted before it has expired *)
C29_Witness ==
    /\ last.op = "decode_token"
    /\ last.req.token = Garbage
    /\ last.body.payload = None
    /\ last.req.minted.payload.exp * SubSecond <= now

(* the ledger rows that carry the jti of a token *)
RowsOf(tok, ledger) ==
    {t \in ledger : t.jti = tok.payload.jti}

(* C30: a jti is on at most one ledger row; a refresh token a response
   returns has exactly one row with its jti, owned by the user its sub names;
   and a row keeps its jti and its owner for good. *)
C30_JtiOneRow ==
    /\ [](\A t1, t2 \in tokens : t1.jti = t2.jti => t1 = t2)
    /\ [][/\ ("refresh_token" \in DOMAIN last'.body /\ last' # last) =>
                LET tok == last'.body.refresh_token
                IN  /\ Cardinality(RowsOf(tok, tokens')) = 1
                    /\ \A t \in RowsOf(tok, tokens') : Str(t.user_id) = tok.payload.sub
          /\ \A t \in tokens :
                Cardinality({x \in tokens' : x.jti = t.jti /\ x.user_id = t.user_id}) = 1]_vars

(* a second refresh token has just been returned, the row of the first being
   revoked by then *)
C30_Witness ==
    /\ last.op = "login" /\ last.status = 200
    /\ Cardinality(RowsOf(last.body.refresh_token, tokens)) = 1
    /\ \E t \in tokens : t.revoked /\ t.jti # last.body.refresh_token.payload.jti

(* C31: a refresh that fails with a token whose jti names a ledger row leaves
   that row revoked. *)
C31_FailedRefreshRevokes ==
    [][(last'.op = "refresh" /\ last' # last /\ last'.status # 200) =>
          \A t \in tokens' : t.jti = JtiOf(last'.req.refresh_token) => t.revoked]_vars

(* the rows of a user and purpose that a verify call may still redeem *)
Redeemable(user_id, purpose) ==
    {r \in otps : /\ r.user_id = user_id /\ r.purpose = purpose
                  /\ ~r.consumed /\ now < r.expires_at}

(* C32: a verify call for a user and purpose with no row, or with expired or
   consumed rows only, returns false and leaves every row as it was. *)
C32_VerifyWithoutCandidate ==
    [][(/\ last'.op = "verify_otp" /\ last' # last
        /\ Redeemable(last'.req.user_id, last'.req.purpose) = {}) =>
          /\ last'.body.ret = "false"
          /\ otps' = otps]_vars

(* the right code has just been refused at the instant its row expired, the
   row uncounted and unconsumed *)
C32_Witness ==
    /\ last.op = "verify_otp" /\ last.body.ret = "false"
    /\ \E r \in otps : /\ r.user_id = last.req.user_id /\ r.purpose = last.req.purpose
                       /\ r.code = last.req.input_otp
                       /\ r.expires_at = now /\ ~r.consumed /\ r.attempts = 0
    /\ Redeemable(last.req.user_id, last.req.purpose) = {}

(* C33: a refresh token, signed with the key and unexpired, sent as the
   Bearer credential on a path that is not exempt is answered 401: no handler
   runs and no identity is attached. *)
C33_RefreshTokenNoCredential ==
    [][(/\ last'.op = "dispatch" /\ last' # last
        /\ NonExempt(last'.req)
        /\ last'.req.auth_header # NoHeader
        /\ last'.req.auth_header.scheme = "Bearer"
        /\ SignedAndUnexpired(last'.req.auth_header.rest)
        /\ last'.req.auth_header.rest.payload.type = "refresh") =>
          /\ last'.status = 401
          /\ ~last'.body.handler
          /\ last'.body.user = None]_vars

(* C34: codes are bound to their user and purpose: a verify call returns true
   only if a row of that user and purpose with that code was unconsumed and
   unexpired at the call, and it leaves the rows of every other user and of
   the other purpose as they were. *)
C34_CodesBoundToUserAndPurpose ==
    [][(last'.op = "verify_otp" /\ last' # last) =>
          /\ last'.body.ret = "true" =>
                \E r \in otps : /\ r.user_id = last'.req.user_id
                                /\ r.purpose = last'.req.purpose
                                /\ r.code = last'.req.input_otp
                                /\ ~r.consumed /\ now < r.expires_at
          /\ \A r \in otps :
                (r.user_id # last'.req.user_id \/ r.purpose # last'.req.purpose) =>
                    r \in otps']_vars

(* a code has just been refused for a user while the same code, stored for
   another user and for the same purpose, could be redeemed and is untouched *)
C34_Witness ==
    /\ last.op = "verify_otp" /\ last.body.ret = "false"
    /\ \E r \in otps : /\ r.user_id # last.req.user_id
                       /\ r.purpose = last.req.purpose
                       /\ r.code = last.req.input_otp
                       /\ ~r.consumed /\ now < r.expires_at /\ r.attempts = 0

(* the rows a verify call matched: consumed, and not by the attempts ceiling *)
Matched(u) ==
    {r \in otps : /\ r.user_id = u.id /\ r.purpose = "email_verification"
                  /\ r.consumed /\ r.id \notin exhausted}

(* C35: a user is verified only if a verify call has matched an
   email_verification row of that user, now consumed; signup stores no
   verified user; and a verified user stays verified. *)
C35_VerifiedOnlyByCode ==
    /\ [](\A u \in users : u.is_verified => Matched(u) # {})
    /\ [][/\ last'.op = "signup" => \A u \in users' \ users : ~u.is_verified
          /\ \A u \in users : u.is_verified =>
                \E v \in users' : v.id = u.id /\ v.is_verified]_vars

(* C36: the e-mail a signup was given resolves to the user of that signup in
   later calls, in the letter case used at signup: a login or a verify-email
   call with it is not answered as for an unknown e-mail. *)
C36_EmailLookupConsistent ==
    [][/\ (/\ last'.op = "verify_email" /\ (last' # last \/ otps' # otps)
           /\ \E u \in users : u.email = Lower(last'.req.email)) =>
              (last'.status # 404 /\ "ret" \in DOMAIN last'.call)
       /\ (/\ last'.op = "login" /\ last' # last
           /\ \E u \in users : /\ u.email = Lower(last'.req.email)
                               /\ verify_password(last'.req.password, u.hashed_password)) =>
              last'.status = 200]_vars

(* C37: the access token of a successful refresh has type "access", the sub,
   email, username and role of the presented refresh token, and an exp claim
   of now plus the access lifetime (in whole seconds); the refresh writes no
   user. *)
C37_RefreshedAccessToken ==
    [][(last'.op = "refresh" /\ last' # last /\ last'.status = 200) =>
          LET given == last'.req.refresh_token.payload
              got == last'.body.access_token
          IN  /\ got.key = SECRET_KEY
              /\ got.payload.type = "access"
              /\ got.payload.sub = given.sub
              /\ got.payload.email = given.email
              /\ got.payload.username = given.username
              /\ got.payload.role = given.role
              /\ got.payload.exp = Timestamp(now + AccessTtl * SubSecond)
              /\ users' = users]_vars

(* a refresh has just succeeded, later than the login that issued its token,
   with two users stored *)
C37_Witness ==
    /\ last.op = "refresh" /\ last.status = 200
    /\ \E t \in tokens : /\ t.jti = JtiOf(last.req.refresh_token)
                         /\ t.expires_at < now + RefreshTtl * SubSecond
    /\ Cardinality(users) = 2

(* the identity a request carries: the claims of a Bearer token that is
   signed with the key and unexpired, None otherwise *)
Identity(auth_header) ==
    IF /\ auth_header # NoHeader
       /\ auth_header.scheme = "Bearer"
       /\ auth_header.rest.payload # None
       /\ SignedAndUnexpired(auth_header.rest)
    THEN auth_header.rest.payload
    ELSE None

(* C38: listing and moderating reports takes an identity whose role is
   editor or admin: a request with no identity is answered 401, one with any
   other role 403, and neither changes a report or an article. *)
C38_ReportsForEditorsAndAdmins ==
    [][(last'.op \in {"list_reports", "moderate_report"} /\ last' # last) =>
          LET who == Identity(last'.req.auth_header)
          IN  /\ who = None =>
                    (last'.status = 401 /\ reports' = reports /\ articles' = articles)
              /\ (who # None /\ who.role \notin {"editor", "admin"}) =>
                    (last'.status = 403 /\ reports' = reports /\ articles' = articles)
              /\ last'.status \notin {401, 403} =>
                    (who # None /\ who.role \in {"editor", "admin"})]_vars

(* an author has just been refused the moderation of a report on the
   article the account published *)
C38_Witness ==
    /\ last.op = "moderate_report" /\ last.status = 403
    /\ Identity(last.req.auth_header).role = "author"
    /\ \E a \in articles : a.status = "published"

(* the follow or unfollow call of a stored user a step has just answered,
   with an id that spells a UUID *)
FollowCall(op) ==
    /\ last'.op = op /\ last' # last
    /\ last'.req.follower_id # None
    /\ \E u \in users : u.id = ParseUUID(last'.req.follower_id)
    /\ ParseUUID(last'.req.following_id) # None

(* C39: there is at most one Follow row per (follower, following) pair and
   none with follower = following; a follow of an existing pair or of
   oneself is answered 400 and an unfollow of an absent pair 404, each
   leaving the follows unchanged; an accepted follow adds one row to a pair
   that had none and an accepted unfollow removes it, after which the status
   of the pair is is_following = false. *)
C39_FollowsArePairs ==
    /\ [](\A f \in follows :
            /\ f.follower_id # f.following_id
            /\ FollowsOf(f.follower_id, f.following_id) = {f})
    /\ [][FollowCall("follow_user") =>
            LET follower == ParseUUID(last'.req.follower_id)
                following == ParseUUID(last'.req.following_id)
            IN  /\ (follower = following \/ FollowsOf(follower, following) # {}) =>
                      (last'.status = 400 /\ follows' = follows)
                /\ last'.status = 200 =>
                      /\ FollowsOf(follower, following) = {}
                      /\ \E f \in follows' :
                            /\ f.follower_id = follower /\ f.following_id = following
                            /\ follows' = follows \cup {f}]_vars
    /\ [][FollowCall("unfollow_user") =>
            LET follower == ParseUUID(last'.req.follower_id)
                following == ParseUUID(last'.req.following_id)
            IN  /\ FollowsOf(follower, following) = {} =>
                      (last'.status = 404 /\ follows' = follows)
                /\ last'.status = 200 =>
                      /\ follows' = follows \ FollowsOf(follower, following)
                      /\ \A f \in follows' :
                            ~(f.follower_id = follower /\ f.following_id = following)]_vars
    /\ [][FollowCall("get_follow_status") =>
            (last'.status = 200 /\ last'.body.is_following =
                (FollowsOf(ParseUUID(last'.req.follower_id),
                           ParseUUID(last'.req.following_id)) # {}))]_vars

(* the react call a step has just answered past the middleware, made by a
   stored user on a stored comment *)
ReactCall ==
    /\ last'.op = "react" /\ last' # last
    /\ last'.req.user_id # None
    /\ \E u \in users : u.id = ParseUUID(last'.req.user_id)
    /\ \E c \in comments : c.id = ParseUUID(last'.req.comment_id)

(* C40: reactions toggle: after react(user, comment, v) the reaction of the
   user on the comment is absent if v = 0 or if the stored reaction already
   was v, and is v otherwise, no other reaction changing; there is at most
   one reaction per (user, comment), and the like and dislike counts
   returned are the numbers of +1 and -1 reactions stored on the comment. *)
C40_ReactionsToggle ==
    /\ [](\A r \in reactions :
            /\ r.value \in {-1, 1}
            /\ ReactionsOf(reactions, r.comment_id, r.user_id) = {r})
    /\ [][ReactCall =>
            LET user == ParseUUID(last'.req.user_id)
                comment == ParseUUID(last'.req.comment_id)
                v == last'.req.value
                old == ReactionsOf(reactions, comment, user)
                new == ReactionsOf(reactions', comment, user)
            IN  /\ last'.status = 200
                /\ IF v = 0 \/ \E r \in old : r.value = v
                   THEN new = {}
                   ELSE \E r \in new : new = {r} /\ r.value = v
                /\ reactions' \ new = reactions \ old
                /\ last'.body.like_count =
                      Cardinality({r \in reactions' : r.comment_id = comment /\ r.value = 1})
                /\ last'.body.dislike_count =
                      Cardinality({r \in reactions' : r.comment_id = comment /\ r.value = -1})]_vars

(* a second +1 of one user has just removed that user's like while the
   dislike of the other user stays counted *)
C40_Witness ==
    /\ last.op = "react" /\ last.status = 200 /\ last.req.value = 1
    /\ ReactionsOf(reactions, ParseUUID(last.req.comment_id), ParseUUID(last.req.user_id)) = {}
    /\ last.body.like_count = 0 /\ last.body.dislike_count = 1
    /\ Cardinality(reactions) = 1

====
